---- MODULE Spec2Model ----
(***************************************************************************)
(* A model of gitmove's recovery / conflict-detection / strategy /         *)
(* synchronisation core.  The git engine is modelled by its documented     *)
(* behaviour on a small repository (branches, commits with file trees, a   *)
(* working tree, a stash list, a merge or rebase in progress); the python   *)
(* functions are translated operator by operator.                          *)
(***************************************************************************)
EXTENDS Integers, Sequences, FiniteSets, TLC

\* ---------------------------------------------------------------- bounds
\* largest number of commits a repository of the model holds
MaxCommits == 4
\* largest number of statements the body of a safe_operation block runs
MaxBody == 3
\* largest number of recovery actions registered in one manager
MaxActions == 2

\* largest number of commits the user makes before a synchronisation or a
\* conflict detection is asked for
MaxSetup == 2

\* largest number of commits a branch is ahead of its target when a strategy
\* is asked for
MaxAhead == 6
MaxCalls == 5

\* ------------------------------------------------------------- universe
Branch == {"main", "feature/x"}
\* value of "current branch" when HEAD is detached
NoBranch == "HEAD"
\* a.py exists in the first commit, n.txt does not; the content of a file is
\* a number, 0 for "the file does not exist"
File == {"a.py", "n.txt"}
\* uncommitted changes: "t" a modification of a tracked file (outside File),
\* "u" an untracked file
Change == {"t", "u"}
Untracked == {"u"}
\* "s": modified content inside a submodule. Repo.is_dirty reports it; git
\* stash, git reset --hard, git commit and the clean-tree test of git rebase
\* leave it alone
Submodule == {"s"}

NoExc == [type |-> "none", text |-> {}]
\* no merge and no rebase in progress; conflicts is the set of the unmerged
\* paths with their status line, <<file, "both modified">>
NoInprog == [kind |-> "none", branch |-> NoBranch, orig |-> 0, conflicts |-> {}]

\* ------------------------------------------------------------ git engine
\* A repository r is a record
\*   branches : local branch -> tip commit (0: the branch does not exist)
\*   origin   : remote-tracking branch origin/<b> -> commit (0: absent)
\*   cur      : the checked-out branch, or NoBranch with HEAD at r.detached
\*   commits  : sequence of commits, a commit's id is its index;
\*              first = first parent (0 for a root), anc = ancestors + itself
\*   wt       : uncommitted changes in the working tree
\*   stash    : stash list, stash[1] is stash@{0}
\*   inprog   : merge or rebase in progress
\*   hook     : a commit/rebase hook that rejects is installed
\*   remote   : the remote "origin" is configured and reachable
HeadCommit(r) == IF r.cur = NoBranch THEN r.detached ELSE r.branches[r.cur]

SetHead(r, c) ==
  IF r.cur = NoBranch THEN [r EXCEPT !.detached = c]
  ELSE [r EXCEPT !.branches[r.cur] = c]

\* repo.is_dirty(untracked_files=True)
IsDirty(r) == r.wt # {} \/ r.inprog.kind = "merge" \/ r.inprog.conflicts # {}

Ok(r) == [ok |-> TRUE, text |-> {}, r |-> r]
Fail(r, text) == [ok |-> FALSE, text |-> text, r |-> r]

\* git rev-parse <name> on a local branch name (0: unknown revision)
Resolve(r, b) == IF b \in Branch THEN r.branches[b] ELSE 0

\* git reset --hard <c>
GitResetHard(r, c) ==
  IF c \notin 1..Len(r.commits) THEN Fail(r, {"unknown revision"})
  ELSE Ok([SetHead(r, c) EXCEPT
             !.wt = r.wt \cap (Untracked \cup Submodule),
             !.inprog = IF r.inprog.kind = "rebase"
                        THEN [r.inprog EXCEPT !.conflicts = {}]
                        ELSE NoInprog])

\* git checkout <branch>: a branch that exists only as origin/<branch> is
\* created from it
GitCheckout(r, b) ==
  IF b \notin Branch \/ (r.branches[b] = 0 /\ r.origin[b] = 0)
    THEN Fail(r, {"did not match any file(s) known to git"})
  ELSE IF r.inprog.kind = "merge" \/ r.inprog.conflicts # {}
    THEN Fail(r, {"you need to resolve your current index first"})
  ELSE IF Resolve(r, b) = 0
    THEN Ok([r EXCEPT !.branches[b] = r.origin[b], !.cur = b, !.detached = 0])
  ELSE Ok([r EXCEPT !.cur = b, !.detached = 0])

\* git stash save --include-untracked <msg>; out = FALSE stands for the
\* output "No local changes to save"
GitStashSave(r, msg) ==
  IF r.inprog.conflicts # {} THEN Fail(r, {"needs merge"}) @@ [out |-> FALSE]
  ELSE IF r.wt \ Submodule = {} THEN Ok(r) @@ [out |-> FALSE]
  ELSE Ok([r EXCEPT !.stash = <<[changes |-> r.wt \ Submodule, msg |-> msg]>>
                                \o r.stash,
                    !.wt = r.wt \cap Submodule]) @@ [out |-> TRUE]

\* git stash apply stash@{i}
GitStashApply(r, i) ==
  IF i \notin 0..(Len(r.stash) - 1)
    THEN Fail(r, {"is not a valid reference"})
  ELSE IF r.stash[i + 1].changes \cap r.wt # {}
    THEN Fail(r, {"would be overwritten"})
  ELSE Ok([r EXCEPT !.wt = r.wt \cup r.stash[i + 1].changes])

\* git stash drop stash@{i}
GitStashDrop(r, i) ==
  IF i \notin 0..(Len(r.stash) - 1)
    THEN Fail(r, {"is not a valid reference"})
  ELSE Ok([r EXCEPT !.stash =
             [k \in 1..(Len(r.stash) - 1) |->
                IF k <= i THEN r.stash[k] ELSE r.stash[k + 1]]])

\* git stash list, first line, text before ":" ("stash@{0}"); -1: no stash
NoStash == -1

\* git commit of a change that sets file f to content v on the current head
GitCommit(r, f, v) ==
  LET h == HeadCommit(r)
      c == Len(r.commits) + 1
      new == [first |-> h, anc |-> r.commits[h].anc \cup {c},
              tree |-> [r.commits[h].tree EXCEPT ![f] = v]]
  IN [SetHead(r, c) EXCEPT !.commits = Append(r.commits, new),
                           !.wt = r.wt \cap (Untracked \cup Submodule)]

\* git merge-base <a> <b> on commits (0: no common ancestor)
MergeBase(r, a, b) ==
  LET common == r.commits[a].anc \cap r.commits[b].anc
      best == {c \in common : \A d \in common \ {c} : c \notin r.commits[d].anc}
  IN IF common = {} THEN 0 ELSE CHOOSE c \in best : \A d \in best : d <= c

\* three-way merge of one file: base b, ours o, theirs t; -1 is a conflict
ThreeWay(b, o, t) ==
  IF o = t THEN o ELSE IF o = b THEN t ELSE IF t = b THEN o ELSE -1

MergeTrees(bt, ot, tt) == [f \in File |-> ThreeWay(bt[f], ot[f], tt[f])]

\* the unmerged paths as "git status" prints them
Unmerged(bt, ot, tt) ==
  {<<f, IF bt[f] = 0 THEN "both added"
        ELSE IF ot[f] = 0 THEN "deleted by us"
        ELSE IF tt[f] = 0 THEN "deleted by them" ELSE "both modified">> :
     f \in {x \in File : ThreeWay(bt[x], ot[x], tt[x]) = -1}}

MergeCommit(r, h, s, tree) ==
  [SetHead(r, Len(r.commits) + 1) EXCEPT
     !.commits = Append(r.commits,
                        [first |-> h,
                         anc |-> r.commits[h].anc \cup r.commits[s].anc
                                   \cup {Len(r.commits) + 1},
                         tree |-> tree]),
     !.inprog = NoInprog]

\* the merge of commit s into HEAD h with merge base of tree bt
Merge3(r, h, s, bt, commit) ==
  IF Unmerged(bt, r.commits[h].tree, r.commits[s].tree) # {}
    THEN Fail([r EXCEPT !.inprog =
                 [kind |-> "merge", branch |-> r.cur, orig |-> h,
                  conflicts |-> Unmerged(bt, r.commits[h].tree, r.commits[s].tree)]],
              {"conflict"})
  ELSE IF ~commit \/ r.hook
    THEN [ok |-> ~r.hook, text |-> IF r.hook THEN {"hook declined"} ELSE {},
          r |-> [r EXCEPT !.inprog = [kind |-> "merge", branch |-> r.cur,
                                      orig |-> h, conflicts |-> {}]]]
  ELSE Ok(MergeCommit(r, h, s,
                      MergeTrees(bt, r.commits[h].tree, r.commits[s].tree)))

MergeWith(r, h, s, commit) ==
  IF MergeBase(r, h, s) = 0
    THEN Fail(r, {"refusing to merge"})
  ELSE IF s \in r.commits[h].anc THEN Ok(r)
  ELSE Merge3(r, h, s, r.commits[MergeBase(r, h, s)].tree, commit)

\* git merge --no-ff <src>, or git merge <src> --no-commit --no-ff: the name
\* is looked up among the local branches
GitMerge(r, src, commit) ==
  IF Resolve(r, src) = 0 THEN Fail(r, {"not something we can merge"})
  ELSE MergeWith(r, HeadCommit(r), Resolve(r, src), commit)

\* git merge --abort
GitMergeAbort(r) ==
  IF r.inprog.kind = "merge" THEN Ok([r EXCEPT !.inprog = NoInprog])
  ELSE Fail(r, {"There is no merge to abort"})

RECURSIVE SortedSeq(_)
SortedSeq(S) ==
  IF S = {} THEN <<>>
  ELSE LET m == CHOOSE x \in S : \A y \in S : x <= y
       IN <<m>> \o SortedSeq(S \ {m})

\* one pick of a rebase: commit c is applied on the detached HEAD of r
Pick(r, c, tree) ==
  IF tree = r.commits[r.detached].tree THEN r
  ELSE [r EXCEPT
          !.commits = Append(r.commits,
                             [first |-> r.detached,
                              anc |-> r.commits[r.detached].anc
                                        \cup {Len(r.commits) + 1},
                              tree |-> tree]),
          !.detached = Len(r.commits) + 1]

RECURSIVE Replay(_, _, _)
Replay(r, todo, i) ==
  IF i > Len(todo)
    THEN Ok([r EXCEPT !.branches[r.inprog.branch] = r.detached,
                      !.cur = r.inprog.branch, !.detached = 0,
                      !.inprog = NoInprog])
  ELSE IF Unmerged(r.commits[r.commits[todo[i]].first].tree,
                   r.commits[r.detached].tree,
                   r.commits[todo[i]].tree) # {}
    THEN Fail([r EXCEPT !.inprog.conflicts =
                 Unmerged(r.commits[r.commits[todo[i]].first].tree,
                          r.commits[r.detached].tree,
                          r.commits[todo[i]].tree)],
              {"conflict"})
  ELSE Replay(Pick(r, todo[i],
                   MergeTrees(r.commits[r.commits[todo[i]].first].tree,
                              r.commits[r.detached].tree,
                              r.commits[todo[i]].tree)),
              todo, i + 1)

\* the commits "git rebase" replays: those of h that are not in b, merge
\* commits left out, oldest first
RebaseTodo(r, h, b) ==
  SortedSeq({c \in r.commits[h].anc \ r.commits[b].anc :
               r.commits[c].first # 0
               /\ r.commits[c].anc = r.commits[r.commits[c].first].anc \cup {c}})

GitRebase_noop(r, base) == Ok(r)

\* git rebase <base> on the checked-out branch
GitRebase(r, base) ==
  IF r.wt \ (Untracked \cup Submodule) # {}
    THEN Fail(r, {"You have unstaged changes"})
  ELSE IF Resolve(r, base) = 0 THEN Fail(r, {"invalid upstream"})
  ELSE IF r.hook THEN Fail(r, {"hook declined"})
  ELSE IF Resolve(r, base) \in r.commits[HeadCommit(r)].anc THEN Ok(r)
  ELSE Replay([r EXCEPT !.inprog = [kind |-> "rebase", branch |-> r.cur,
                                    orig |-> HeadCommit(r), conflicts |-> {}],
                        !.cur = NoBranch,
                        !.detached = Resolve(r, base)],
              RebaseTodo(r, HeadCommit(r), Resolve(r, base)), 1)

\* git rebase --abort
GitRebaseAbort(r) ==
  IF r.inprog.kind = "rebase"
    THEN Ok([r EXCEPT !.cur = r.inprog.branch, !.detached = 0,
                      !.inprog = NoInprog])
  ELSE Fail(r, {"No rebase in progress?"})

\* git fetch origin --prune
GitFetch(r) ==
  IF r.remote THEN Ok(r)
  ELSE Fail(r, {"does not appear to be a git repository"})

\* git clone <working_dir> <temp_dir>: the clone has the caller's commits,
\* its checked-out branch as only local branch and the caller's local
\* branches as origin/<branch>; no stash, no uncommitted change, no hook
CloneFrom(r) ==
  [branches |-> [b \in Branch |-> IF b = r.cur THEN r.branches[b] ELSE 0],
   origin |-> r.branches,
   cur |-> r.cur, detached |-> r.detached,
   commits |-> r.commits,
   wt |-> {}, stash |-> <<>>,
   inprog |-> NoInprog, hook |-> FALSE, remote |-> TRUE]

\* ------------------------------------------------------------ exceptions
\* The text of a git error is modelled by the set of the substrings that
\* convert_git_error looks for and that occur in it.
Exc(type, text) == [type |-> type, text |-> text]

convert_git_error(text) ==
  IF "conflict" \in text THEN Exc("MergeConflictError", text)
  ELSE IF "not a valid object name" \in text
          \/ "did not match any file(s) known to git" \in text
    THEN Exc("MissingBranchError", text)
  ELSE IF "working tree clean" \notin text /\ "changes not staged" \in text
    THEN Exc("DirtyWorkingTreeError", text)
  ELSE IF "refusing to pull" \in text \/ "refusing to merge" \in text
    THEN Exc("SyncError", text)
  ELSE Exc("GitError", text)

\* ------------------------------------------------------- RecoveryManager
\* A manager m is a record [saved_states, recovery_actions].  The python
\* functions are written as pipelines: every step takes the values the
\* earlier statements computed and returns those the next statement sees.
NewManager == [saved_states |-> [n \in {} |-> 0], recovery_actions |-> <<>>]

\* _get_last_stash_id(): the text before ":" in the first line of "git stash
\* list" is "stash@{0}"
_get_last_stash_id(r) == IF Len(r.stash) > 0 THEN 0 ELSE NoStash

\* save_state, lines 79-95: st is the outcome of "git stash save" (or of no
\* command when the tree is clean); a failure is logged and the state is
\* not stored
save_state_store(m, r, name, st) ==
  IF ~st.ok THEN [m |-> m, r |-> st.r, stored |-> FALSE]
  ELSE [m |-> [m EXCEPT !.saved_states =
                 (name :> [current_branch |-> r.cur,
                           head_commit |-> HeadCommit(r),
                           stash_created |-> st.out,
                           stash_id |-> IF st.out THEN _get_last_stash_id(st.r)
                                        ELSE NoStash])
                 @@ m.saved_states],
        r |-> st.r, stored |-> TRUE]

\* save_state(name)
save_state(m, r, name) ==
  save_state_store(m, r, name,
                   IF IsDirty(r) THEN GitStashSave(r, <<"recovery", name>>)
                   ELSE Ok(r) @@ [out |-> FALSE])

\* one restoration step of restore_state: res is the outcome of its git
\* command; with force=False a failure raises the converted git error
RestoreStep_continue(acc, res, step, force) ==
  [acc EXCEPT !.r = res.r,
              !.steps = Append(@, step),
              !.failed = IF res.ok THEN @ ELSE Append(@, step)]

RestoreStep(acc, res, step, force) ==
  [acc EXCEPT !.r = res.r,
              !.steps = Append(@, step),
              !.failed = IF res.ok THEN @ ELSE Append(@, step),
              !.exc = IF ~res.ok /\ ~force THEN convert_git_error(res.text)
                      ELSE NoExc]

GitStashApplyDrop_keep(r, i) == GitStashApply(r, i)

\* git stash apply <id> followed by git stash drop <id>
GitStashApplyDrop(r, i) ==
  IF GitStashApply(r, i).ok THEN GitStashDrop(GitStashApply(r, i).r, i)
  ELSE GitStashApply(r, i)

restore_reset(acc, state, force) ==
  IF state.head_commit = 0 THEN acc
  ELSE RestoreStep(acc, GitResetHard(acc.r, state.head_commit), "reset", force)

restore_checkout(acc, state, force) ==
  IF acc.exc # NoExc \/ state.current_branch = NoBranch THEN acc
  ELSE RestoreStep(acc, GitCheckout(acc.r, state.current_branch),
                   "checkout", force)

restore_stash(acc, state, force) ==
  IF acc.exc # NoExc \/ ~(state.stash_created /\ state.stash_id # NoStash)
    THEN acc
  ELSE [RestoreStep(acc, GitStashApplyDrop(acc.r, state.stash_id),
                    "stash", force)
          EXCEPT !.applied = GitStashApply(acc.r, state.stash_id).ok]

\* del self.saved_states[name]
restore_finish(acc, name) ==
  IF acc.exc # NoExc THEN acc
  ELSE [acc EXCEPT !.m.saved_states =
          [n \in (DOMAIN acc.m.saved_states) \ {name} |->
             acc.m.saved_states[n]]]

\* restore_state(name, force): steps = the restoration steps attempted,
\* failed = those whose git command failed, applied = "git stash apply"
\* succeeded, exc = the exception raised (NoExc when it returns True); the
\* errors of the git commands are GitError instances and are re-raised as
\* they are
restore_state(m, r, name, force) ==
  IF name \notin DOMAIN m.saved_states
    THEN [m |-> m, r |-> r, exc |-> Exc("RecoveryError", {}), steps |-> <<>>,
          failed |-> <<>>, applied |-> FALSE]
  ELSE restore_finish(
         restore_stash(
           restore_checkout(
             restore_reset([m |-> m, r |-> r, exc |-> NoExc, steps |-> <<>>,
                            failed |-> <<>>, applied |-> FALSE],
                           m.saved_states[name], force),
             m.saved_states[name], force),
           m.saved_states[name], force),
         name)

\* register_recovery_action(action, *args)
register_recovery_action(m, a) ==
  [m EXCEPT !.recovery_actions = Append(m.recovery_actions, a)]

\* the exception that leaves the except block of safe_operation: the bare
\* "raise" after the inner try/except re-raises the body's exception
PropagatedException_inner(original, recovery_error) ==
  IF recovery_error # NoExc THEN recovery_error ELSE original

PropagatedException(original, recovery_error) == original

\* the except block of safe_operation without callback and without
\* registered actions, as the module-level git commands use it
RollbackResult(rs, e) ==
  [m |-> rs.m, r |-> rs.r, raised |-> PropagatedException(e, rs.exc)]

SafeOperationRollback(m, r, name, e) ==
  RollbackResult(restore_state(m, r, name, FALSE), e)

\* safe_git_command: a GitCommandError is converted, a GitError passes,
\* anything else is wrapped in GitError
safe_git_command(e) ==
  IF e = NoExc THEN NoExc
  ELSE IF e.type = "GitCommandError" THEN convert_git_error(e.text)
  ELSE IF e.type \in {"GitError", "InvalidRepositoryError", "BranchError",
                     "MissingBranchError", "ProtectedBranchError",
                     "DirtyWorkingTreeError", "MergeConflictError",
                     "SyncError"}
    THEN e
  ELSE Exc("GitError", e.text)

\* apply_stash(repo, stash_id, delete_after=True): s is the outcome of the
\* two save_state calls, d that of "stash apply" and "stash drop"
apply_stash_end(s, d) ==
  IF d.ok THEN [r |-> d.r, raised |-> NoExc]
  ELSE SafeOperationRollback(s.m, d.r, "apply_stash",
                             Exc("GitCommandError", d.text))

apply_stash_run(s, stash_id) ==
  apply_stash_end(s, GitStashApplyDrop(s.r, stash_id))

save_state_again(s, name) == save_state(s.m, s.r, name)

apply_stash(r, stash_id) ==
  apply_stash_run(
    save_state_again(save_state(NewManager, r, "apply_stash"),
                     "pre_stash_apply"),
    stash_id)

\* one registered action: apply_stash(repo, arg), or a caller's callable
\* that returns (arg = "ok") or raises (arg = "raises")
ActionOutcome(acc, x) == [r |-> x.r, ok |-> acc.ok /\ x.raised = NoExc]

RunAction(a, acc) ==
  IF a.fn = "apply_stash" THEN ActionOutcome(acc, apply_stash(acc.r, a.arg))
  ELSE [r |-> acc.r, ok |-> acc.ok /\ a.arg = "ok"]

RECURSIVE ExecuteFrom(_, _, _)
ExecuteFrom(acts, i, acc) ==
  IF i = 0 THEN acc ELSE ExecuteFrom(acts, i - 1, RunAction(acts[i], acc))

\* execute_recovery_actions(): the actions run in reverse order of
\* registration, an action that raises does not stop the others
execute_recovery_actions(m, r) ==
  ExecuteFrom(m.recovery_actions, Len(m.recovery_actions),
              [r |-> r, ok |-> TRUE])

\* the except block of safe_operation(name, recovery_callback), after
\* restore_state (rs): cb is "none", "ok" (the callback returns) or "raises"
ExceptResult(rs, ex, e, inner, runs) ==
  [m |-> rs.m, r |-> ex.r,
   raised |-> PropagatedException(e, inner),
   restored |-> rs.exc = NoExc, inner |-> inner,
   actions_run |-> runs, actions_ok |-> ex.ok]

ExceptAfterRestore(rs, e, cb) ==
  IF rs.exc # NoExc
    THEN ExceptResult(rs, [r |-> rs.r, ok |-> TRUE], e, rs.exc, FALSE)
  ELSE IF cb = "raises"
    THEN ExceptResult(rs, [r |-> rs.r, ok |-> TRUE], e,
                      Exc("CallbackError", {}), FALSE)
  ELSE ExceptResult(rs, execute_recovery_actions(rs.m, rs.r), e, NoExc, TRUE)

\* ----------------------------------------------------------- git_commands
get_current_branch(r) == r.cur

get_branch_divergence_ahead_only(r, a, b) ==
  [ahead |-> IF Resolve(r, a) = 0 \/ Resolve(r, b) = 0 THEN 0
             ELSE Cardinality(r.commits[Resolve(r, a)].anc
                                \ r.commits[Resolve(r, b)].anc),
   behind |-> 0]

\* get_branch_divergence(repo, branch_name, target_branch): a failing git
\* command gives (0, 0)
get_branch_divergence(r, a, b) ==
  IF Resolve(r, a) = 0 \/ Resolve(r, b) = 0
       \/ MergeBase(r, Resolve(r, a), Resolve(r, b)) = 0
    THEN [ahead |-> 0, behind |-> 0]
  ELSE [ahead |-> Cardinality(
                    r.commits[Resolve(r, a)].anc
                      \ r.commits[MergeBase(r, Resolve(r, a), Resolve(r, b))].anc),
        behind |-> Cardinality(
                    r.commits[Resolve(r, b)].anc
                      \ r.commits[MergeBase(r, Resolve(r, a), Resolve(r, b))].anc)]

\* BranchManager._get_branch_divergence(branch, target_branch): "git
\* merge-base" is run first and its result is not used; the counts are those
\* of "git rev-list --count target..branch" and "branch..target"; any
\* exception gives (0, 0)
_get_branch_divergence(r, branch, target_branch) ==
  IF Resolve(r, branch) = 0 \/ Resolve(r, target_branch) = 0
       \/ MergeBase(r, Resolve(r, branch), Resolve(r, target_branch)) = 0
    THEN [ahead |-> 0, behind |-> 0]
  ELSE [ahead |-> Cardinality(r.commits[Resolve(r, branch)].anc
                                \ r.commits[Resolve(r, target_branch)].anc),
        behind |-> Cardinality(r.commits[Resolve(r, target_branch)].anc
                                 \ r.commits[Resolve(r, branch)].anc)]

\* get_common_ancestor(repo, branch1, branch2): None (0) when git fails
get_common_ancestor(r, b1, b2) ==
  IF Resolve(r, b1) = 0 \/ Resolve(r, b2) = 0 THEN 0
  ELSE MergeBase(r, Resolve(r, b1), Resolve(r, b2))

\* get_modified_files(repo, since_commit, until_commit): the names that
\* "git diff --name-only since..until" prints, the empty set when git fails
get_modified_files(r, since, until) ==
  IF Resolve(r, until) = 0 \/ since \notin 1..Len(r.commits) THEN {}
  ELSE {f \in File :
          r.commits[since].tree[f] # r.commits[Resolve(r, until)].tree[f]}

\* what a decorated git command hands to its caller after the rollback of
\* its safe_operation block
RaisedFrom(rb) == [r |-> rb.r, raised |-> safe_git_command(rb.raised)]

\* fetch_updates(repo): git fetch inside safe_operation("fetch")
FetchResult(s, f) ==
  IF f.ok THEN [r |-> f.r, raised |-> NoExc]
  ELSE RaisedFrom(SafeOperationRollback(s.m, f.r, "fetch",
                                        Exc("GitCommandError", f.text)))

fetch_updates(r) ==
  FetchResult(save_state(NewManager, r, "fetch"),
              GitFetch(save_state(NewManager, r, "fetch").r))

\* stash_changes(repo, message): stash_id = NoStash stands for None
StashChangesResult(st) ==
  IF ~st.ok
    THEN [r |-> st.r, stash_id |-> NoStash,
          raised |-> convert_git_error(st.text)]
  ELSE [r |-> st.r, raised |-> NoExc,
        stash_id |-> IF st.out /\ Len(st.r.stash) > 0 THEN 0 ELSE NoStash]

stash_changes(r, msg) ==
  IF ~IsDirty(r) THEN [r |-> r, stash_id |-> NoStash, raised |-> NoExc]
  ELSE StashChangesResult(GitStashSave(r, msg))

\* merge_branch and rebase_branch have the same shape; kind is "merge" or
\* "rebase" and names the git command, its --abort and the saved state
AbortFailedStep_skipped(kind, r) == r

\* except GitCommandError: try: git.merge("--abort") / git.rebase("--abort")
\* except GitCommandError: pass
AbortFailedStep(kind, r) ==
  IF kind = "merge" THEN GitMergeAbort(r).r ELSE GitRebaseAbort(r).r

\* finally: if branch_changed: git.checkout(current_branch), a failure is
\* logged
FinallyCheckout(r, current, branch_changed) ==
  IF branch_changed THEN GitCheckout(r, current).r ELSE r

\* the git command res failed: abort, convert the error, run the finally
\* clause, then the except block of safe_operation(kind)
BranchOpFail(s, res, kind, current, branch_changed) ==
  RaisedFrom(
    SafeOperationRollback(
      s.m,
      FinallyCheckout(AbortFailedStep(kind, res.r), current, branch_changed),
      kind, convert_git_error(res.text)))

BranchOpEnd(s, res, kind, current, branch_changed) ==
  IF res.ok
    THEN [r |-> FinallyCheckout(res.r, current, branch_changed),
          raised |-> NoExc]
  ELSE BranchOpFail(s, res, kind, current, branch_changed)

\* co is the outcome of the checkout of the target branch
BranchOpStep(s, co, kind, source, current, changing) ==
  IF ~co.ok THEN BranchOpFail(s, co, kind, current, FALSE)
  ELSE BranchOpEnd(s,
                   IF kind = "merge" THEN GitMerge(co.r, source, TRUE)
                   ELSE GitRebase(co.r, source),
                   kind, current, changing)

BranchOpStart(s, kind, source, current, target) ==
  BranchOpStep(s,
               IF current # target THEN GitCheckout(s.r, target) ELSE Ok(s.r),
               kind, source, current, current # target)

BranchOp(kind, r, source, target) ==
  BranchOpStart(save_state_again(
                  save_state(NewManager, r, kind),
                  IF kind = "merge" THEN "pre_merge" ELSE "pre_rebase"),
                kind, source, get_current_branch(r), target)

\* merge_branch(repo, source_branch, target_branch)
merge_branch(r, source_branch, target_branch) ==
  BranchOp("merge", r, source_branch, target_branch)

\* rebase_branch(repo, base_branch, target_branch)
rebase_branch(r, base_branch, target_branch) ==
  BranchOp("rebase", r, base_branch, target_branch)

\* ------------------------------------------------------- ConflictDetector
\* "git diff <source>:<file> <target>:<file>" of two versions o and t of a
\* file: the "---" and "+++" header lines count as one deletion and one
\* addition, version v of a file has v lines of its own, and every version
\* of a.py holds a function definition
GitDiff(f, o, t) ==
  [empty |-> o = t,
   changes |-> 2 + o + t,
   keywords |-> IF f = "a.py" THEN {"def "} ELSE {}]

SimulationError == "Erreur lors de la simulation"

FileType(ext) ==
  IF ext \in {".py", ".js", ".java", ".c", ".cpp", ".go", ".rb"}
    THEN "Code source"
  ELSE IF ext \in {".json", ".xml", ".yaml", ".yml", ".toml", ".ini"}
    THEN "Configuration"
  ELSE IF ext \in {".md", ".txt", ".rst"} THEN "Documentation"
  ELSE IF ext \in {".html", ".css", ".scss", ".less"} THEN "Interface web"
  ELSE "Autre"

\* _classify_conflict(file_path, diff_output)
_classify_conflict(file_path, diff) ==
  [conflict_type |->
     \* os.path.splitext(file_path)[1].lower()
     FileType(IF file_path = "a.py" THEN ".py"
              ELSE IF file_path = "n.txt" THEN ".txt" ELSE ""),
   severity |->
     IF diff.empty THEN "Inconnue"
     ELSE IF diff.keywords \cap {"import", "require", "function", "def ", "class"} # {}
       THEN "Élevée"
     ELSE IF diff.changes <= 5 THEN "Faible"
     ELSE IF diff.changes <= 20 THEN "Moyenne"
     ELSE "Élevée"]

ConflictEntry(file_path, c) ==
  [file_path |-> file_path, conflict_type |-> c.conflict_type,
   severity |-> c.severity, error |-> FALSE]

\* the entry of a file whose analysis raised
ErrorEntry(file_path) ==
  [file_path |-> file_path, conflict_type |-> "Inconnu",
   severity |-> "Élevée", error |-> TRUE]

\* one turn of the loop of _analyze_conflicts: the diff is asked from the
\* caller's repository, and git fails on a path that is in neither branch
AnalyzeFile(file_path, r, source, target, show_diff) ==
  IF ~show_diff
    THEN ConflictEntry(file_path, _classify_conflict(
                         file_path,
                         [empty |-> TRUE, changes |-> 0, keywords |-> {}]))
  ELSE IF file_path \notin File
            \/ r.commits[Resolve(r, source)].tree[file_path] = 0
            \/ r.commits[Resolve(r, target)].tree[file_path] = 0
    THEN ErrorEntry(file_path)
  ELSE ConflictEntry(
         file_path,
         _classify_conflict(
           file_path,
           GitDiff(file_path,
                   r.commits[Resolve(r, source)].tree[file_path],
                   r.commits[Resolve(r, target)].tree[file_path])))

\* _analyze_conflicts(conflicting_files, source_branch, target_branch)
_analyze_conflicts(files, r, source, target, show_diff) ==
  [i \in 1..Len(files) |-> AnalyzeFile(files[i], r, source, target, show_diff)]

\* the repository the trial checkout and merge run in: temp_git is
\* Git(temp_dir), the clone
temp_git_caller == "repo"

temp_git == "temp"

\* leaving "with tempfile.TemporaryDirectory() as temp_dir": the directory
\* and the clone in it are removed; trial tells how the trial merge ended:
\* "merged", "failed" (git merge raised) or "error" (the outer except clause)
SimulationReturn(w, files, trial) ==
  [files |-> files, r |-> w.repo, tmp |-> {}, trial |-> trial]

\* temp_git.merge(source, "--no-commit", "--no-ff") returned or raised; the
\* conflicting files are the lines of "git status" that hold "both modified:"
SimulateMerged(w, mg) ==
  SimulationReturn([w EXCEPT ![temp_git] = mg.r],
                   IF mg.ok THEN <<>>
                   ELSE SelectSeq(<<"a.py", "n.txt">>,
                                  LAMBDA f : <<f, "both modified">>
                                               \in mg.r.inprog.conflicts),
                   IF mg.ok THEN "merged" ELSE "failed")

\* temp_git.checkout(target_branch) returned or raised
SimulateCheckedOut(w, co, source) ==
  IF ~co.ok THEN SimulationReturn(w, <<SimulationError>>, "error")
  ELSE SimulateMerged([w EXCEPT ![temp_git] = co.r],
                      GitMerge(co.r, source, FALSE))

\* _simulate_merge(source_branch, target_branch); clone_ok = FALSE: the
\* clone into the temporary directory fails
_simulate_merge(r, source, target, clone_ok) ==
  IF ~clone_ok
    THEN SimulationReturn([repo |-> r, temp |-> r], <<SimulationError>>, "error")
  ELSE SimulateCheckedOut(
         [repo |-> r, temp |-> CloneFrom(r)],
         GitCheckout([repo |-> r, temp |-> CloneFrom(r)][temp_git], target),
         source)

\* a report of detect_conflicts; files_key = FALSE: the dictionary has no
\* "conflicting_files" key; error = "" : it has no "error" key
Report(has_conflicts, conflicting_files, files_key, error) ==
  [has_conflicts |-> has_conflicts, conflicting_files |-> conflicting_files,
   files_key |-> files_key, error |-> error]

\* trial = "none": no trial merge was made
DetectResult(report, r, tmp, trial) ==
  [report |-> report, r |-> r, tmp |-> tmp, trial |-> trial]

\* steps 3 to 5 of detect_conflicts, sim being what _simulate_merge returned
DetectFromSimulation(sim, source, target, show_diff) ==
  IF sim.files = <<>>
    THEN DetectResult(Report(FALSE, <<>>, FALSE, ""), sim.r, sim.tmp, sim.trial)
  ELSE DetectResult(
         Report(TRUE,
                _analyze_conflicts(sim.files, sim.r, source, target, show_diff),
                TRUE, ""),
         sim.r, sim.tmp, sim.trial)

\* steps 1 and 2 of detect_conflicts
DetectFromAncestor(r, ancestor, source, target, show_diff, clone_ok) ==
  IF ancestor = 0
    THEN DetectResult(Report(TRUE, <<>>, TRUE, "Pas d'ancêtre commun trouvé"),
                      r, {}, "none")
  ELSE IF get_modified_files(r, ancestor, source)
            \cap get_modified_files(r, ancestor, target) = {}
    THEN DetectResult(Report(FALSE, <<>>, TRUE, ""), r, {}, "none")
  ELSE DetectFromSimulation(_simulate_merge(r, source, target, clone_ok),
                            source, target, show_diff)

detect_conflicts_always_compares(r, branch_name, target_branch, show_diff, clone_ok) ==
  DetectFromAncestor(r, get_common_ancestor(r, branch_name, target_branch),
                     branch_name, target_branch, show_diff, clone_ok)

\* detect_conflicts(branch_name, target_branch)
detect_conflicts(r, branch_name, target_branch, show_diff, clone_ok) ==
  IF branch_name = target_branch
    THEN DetectResult(Report(FALSE, <<>>, TRUE, ""), r, {}, "none")
  ELSE DetectFromAncestor(r, get_common_ancestor(r, branch_name, target_branch),
                          branch_name, target_branch, show_diff, clone_ok)

\* -------------------------------------------------------------- strategy
\* A configuration cfg is a record of the values the classes read with
\* config.get_value: main_branch, default_strategy, rebase_threshold,
\* force_merge_patterns, force_rebase_patterns, consider_branch_age,
\* show_diff.
CharAt(str, i) == SubSeq(str, i, i)

\* str.startswith(prefix)
StartsWith(str, prefix) ==
  Len(prefix) <= Len(str) /\ SubSeq(str, 1, Len(prefix)) = prefix

\* fnmatch.fnmatch(name, pat) on POSIX, for patterns made of literal
\* characters, "*" and "?": name from position i against pat from position j
RECURSIVE FnMatchFrom(_, _, _, _)
FnMatchFrom(name, i, pat, j) ==
  IF j > Len(pat) THEN i > Len(name)
  ELSE IF CharAt(pat, j) = "*"
    THEN FnMatchFrom(name, i, pat, j + 1)
         \/ (i <= Len(name) /\ FnMatchFrom(name, i + 1, pat, j))
  ELSE /\ i <= Len(name)
       /\ CharAt(pat, j) = "?" \/ CharAt(pat, j) = CharAt(name, i)
       /\ FnMatchFrom(name, i + 1, pat, j + 1)

fnmatch(name, pat) == FnMatchFrom(name, 1, pat, 1)

\* for pattern in patterns: if fnmatch.fnmatch(branch_name, pattern)
AnyMatch(name, patterns) ==
  \E i \in 1..Len(patterns) : fnmatch(name, patterns[i])

\* sum(1 for c in conflicts.get("conflicting_files", [])
\*     if c.get("severity") == severity)
CountSeverity(report, severity) ==
  Cardinality({i \in 1..Len(report.conflicting_files) :
                 report.conflicting_files[i].severity = severity})

\* SyncManager._determine_sync_strategy on what it observes of the
\* repository: obs.raises (a step of the try block raised), obs.ahead
\* (get_branch_divergence) and obs.report (detect_conflicts)
SyncStrategyFrom(cfg, branch_name, obs) ==
  IF cfg.default_strategy \in {"merge", "rebase"} THEN cfg.default_strategy
  ELSE IF obs.raises THEN "merge"
  ELSE IF obs.ahead <= cfg.rebase_threshold THEN "rebase"
  ELSE IF AnyMatch(branch_name, cfg.force_merge_patterns) THEN "merge"
  ELSE IF AnyMatch(branch_name, cfg.force_rebase_patterns) THEN "rebase"
  ELSE IF obs.report.has_conflicts
          /\ (CountSeverity(obs.report, "Élevée") > 0
              \/ Len(obs.report.conflicting_files) > 3)
    THEN "merge"
  ELSE "rebase"

\* _determine_sync_strategy(branch_name, target_branch)
_determine_sync_strategy(r, cfg, branch_name, target_branch, clone_ok) ==
  SyncStrategyFrom(
    cfg, branch_name,
    [raises |-> FALSE,
     ahead |-> get_branch_divergence(r, branch_name, target_branch).ahead,
     report |-> detect_conflicts(r, branch_name, target_branch,
                                 cfg.show_diff, clone_ok).report])

\* StrategyAdvisor._check_forced_strategy(branch_name); "" stands for None
_check_forced_strategy(cfg, branch_name) ==
  IF AnyMatch(branch_name, cfg.force_merge_patterns) THEN "merge"
  ELSE IF AnyMatch(branch_name, cfg.force_rebase_patterns) THEN "rebase"
  ELSE ""

\* StrategyAdvisor._get_branch_pattern(branch_name)
_get_branch_pattern(name) ==
  IF StartsWith(name, "feature/") \/ StartsWith(name, "feat/") THEN "feature"
  ELSE IF StartsWith(name, "fix/") \/ StartsWith(name, "bugfix/")
          \/ StartsWith(name, "hotfix/")
    THEN "bugfix"
  ELSE IF StartsWith(name, "release/") THEN "release"
  ELSE IF StartsWith(name, "chore/") THEN "chore"
  ELSE IF StartsWith(name, "doc/") \/ StartsWith(name, "docs/") THEN "doc"
  ELSE IF StartsWith(name, "test/") THEN "test"
  ELSE "other"

\* StrategyAdvisor._analyze_branch on what it observes: obs.ahead, obs.age
\* (days), obs.config_files and obs.code_files (file_stats), obs.report
_analyze_branch(obs, branch_name) ==
  [ahead_commits |-> obs.ahead,
   branch_age_days |-> obs.age,
   has_conflicts |-> obs.report.has_conflicts,
   conflict_count |-> IF obs.report.has_conflicts
                      THEN Len(obs.report.conflicting_files) ELSE 0,
   high |-> IF obs.report.has_conflicts
            THEN CountSeverity(obs.report, "Élevée") ELSE 0,
   config |-> obs.config_files,
   code |-> obs.code_files,
   branch_pattern |-> _get_branch_pattern(branch_name)]

Count(b) == IF b THEN 1 ELSE 0

\* len(rebase_factors) in _determine_strategy
RebaseFactors(cfg, a) ==
  Count(a.ahead_commits <= cfg.rebase_threshold)
  + Count(cfg.consider_branch_age /\ a.branch_age_days <= 7)
  + Count(~a.has_conflicts \/ (a.high = 0 /\ a.conflict_count <= 3))
  + Count(a.branch_pattern = "bugfix")

\* len(merge_factors) in _determine_strategy
MergeFactors(cfg, a) ==
  Count(a.ahead_commits > cfg.rebase_threshold)
  + Count(cfg.consider_branch_age /\ a.branch_age_days > 7
          /\ a.branch_age_days >= 30)
  + Count(a.has_conflicts /\ (a.high > 0 \/ a.conflict_count > 3))
  + Count(a.config > 0)
  + Count(a.code > 10)
  + Count(a.branch_pattern = "feature")

_determine_strategy_tie_rebase(cfg, a) ==
  IF RebaseFactors(cfg, a) >= MergeFactors(cfg, a) THEN "rebase" ELSE "merge"

\* StrategyAdvisor._determine_strategy(analysis): a tie gives "merge"
_determine_strategy(cfg, a) ==
  IF RebaseFactors(cfg, a) > MergeFactors(cfg, a) THEN "rebase" ELSE "merge"

\* StrategyAdvisor.get_strategy_advice(branch_name, target_branch): the
\* "strategy" of the dictionary it returns; obs.raises: _analyze_branch
\* raised
get_strategy_advice(cfg, branch_name, target_branch, obs) ==
  IF branch_name = target_branch THEN "none"
  ELSE IF obs.raises THEN "merge"
  ELSE IF _check_forced_strategy(cfg, branch_name) # ""
    THEN _check_forced_strategy(cfg, branch_name)
  ELSE _determine_strategy(cfg, _analyze_branch(obs, branch_name))

\* ----------------------------------------------------------- SyncManager
\* check_sync_status(branch_name): the except clause around fetch_updates
\* names GitCommandError, every other exception leaves check_sync_status
StatusOf(r, d) ==
  [r |-> r, raised |-> NoExc, is_synced |-> d.behind = 0,
   ahead_commits |-> d.ahead, behind_commits |-> d.behind]

CheckAfterFetch(fu, branch_name, main_branch) ==
  IF fu.raised # NoExc /\ fu.raised.type # "GitCommandError"
    THEN [r |-> fu.r, raised |-> fu.raised, is_synced |-> FALSE,
          ahead_commits |-> 0, behind_commits |-> 0]
  ELSE StatusOf(fu.r, get_branch_divergence(fu.r, branch_name, main_branch))

check_sync_status(r, main_branch, branch_name) ==
  IF branch_name = main_branch
    THEN StatusOf(r, [ahead |-> 0, behind |-> 0])
  ELSE CheckAfterFetch(fetch_updates(r), branch_name, main_branch)

\* sync_with_main is a pipeline over a record acc:
\*   m, r        self.recovery and the repository
\*   tmp         temporary directories left on disk
\*   log         the calls made, in order
\*   strategy    the strategy argument, then the resolved strategy
\*   report      what the conflict precheck returned (prechecked = it ran)
\*   resolved    the statements after the auto-stash were reached
\*   pre         the repository just before merge_branch / rebase_branch
\*   status      "status" of the returned dictionary, or "raised"
\*   raised      the exception that left sync_with_main
NewSync(m, r, strategy) ==
  [m |-> m, r |-> r, tmp |-> {}, log |-> <<>>, strategy |-> strategy,
   report |-> Report(FALSE, <<>>, FALSE, ""), prechecked |-> FALSE, resolved |-> FALSE,
   pre |-> r, stepped |-> FALSE, status |-> "", raised |-> NoExc]

Called(acc, name, r) == [acc EXCEPT !.log = Append(@, name), !.r = r]

Finish(acc, status, raised) ==
  [acc EXCEPT !.status = status, !.raised = raised]

PrecheckEnabled_never(force_sync) == FALSE

\* if not force_sync:
PrecheckEnabled(force_sync) == ~force_sync

SyncEnd_failed(acc, op) ==
  IF op.raised = NoExc THEN Finish([acc EXCEPT !.r = op.r], "synchronized", NoExc)
  ELSE IF op.raised.type = "MergeConflictError"
    THEN Finish([acc EXCEPT !.r = op.r], "conflict_occurred", NoExc)
  ELSE Finish([acc EXCEPT !.r = op.r], "failed", NoExc)

\* lines 207-243: what merge_branch / rebase_branch returned or raised
SyncEnd(acc, op) ==
  IF op.raised = NoExc THEN Finish([acc EXCEPT !.r = op.r], "synchronized", NoExc)
  ELSE IF op.raised.type = "MergeConflictError"
    THEN Finish([acc EXCEPT !.r = op.r], "conflict_occurred", NoExc)
  ELSE Finish([acc EXCEPT !.r = op.r], "raised",
              Exc("SyncError", op.raised.text))

\* lines 191-205
SyncRun(acc, main_branch, branch_name) ==
  IF acc.strategy = "merge"
    THEN SyncEnd(Called(acc, "merge_branch", acc.r),
                 merge_branch(acc.r, main_branch, branch_name))
  ELSE SyncEnd(Called(acc, "rebase_branch", acc.r),
               rebase_branch(acc.r, main_branch, branch_name))

\* line 189: self.recovery.save_state("pre_sync")
Saved(acc, sv) ==
  [acc EXCEPT !.m = sv.m, !.r = sv.r, !.log = Append(@, "save_state"),
              !.pre = sv.r, !.stepped = TRUE]

SyncSave(acc, main_branch, branch_name) ==
  SyncRun(Saved(acc, save_state(acc.m, acc.r, "pre_sync")),
          main_branch, branch_name)

Prechecked(acc, d) ==
  [acc EXCEPT !.r = d.r, !.tmp = d.tmp, !.log = Append(@, "detect_conflicts"),
              !.report = d.report, !.prechecked = TRUE]

\* lines 175-186
SyncPrechecked(acc, d, main_branch, branch_name) ==
  IF d.report.has_conflicts THEN Finish(Prechecked(acc, d), "conflicts", NoExc)
  ELSE SyncSave(Prechecked(acc, d), main_branch, branch_name)

SyncPrecheck(acc, cfg, branch_name, force_sync, clone_ok) ==
  IF PrecheckEnabled(force_sync)
    THEN SyncPrechecked(acc,
                        detect_conflicts(acc.r, branch_name, cfg.main_branch,
                                         cfg.show_diff, clone_ok),
                        cfg.main_branch, branch_name)
  ELSE SyncSave(acc, cfg.main_branch, branch_name)

\* lines 171-172
SyncResolve(acc, cfg, branch_name, force_sync, clone_ok) ==
  SyncPrecheck(
    [acc EXCEPT !.resolved = TRUE,
                !.strategy =
                  IF @ = "auto"
                  THEN _determine_sync_strategy(acc.r, cfg, branch_name,
                                                cfg.main_branch, clone_ok)
                  ELSE @],
    cfg, branch_name, force_sync, clone_ok)

\* lines 146-168: sc is what stash_changes returned or raised
SyncStashed(acc, sc, cfg, branch_name, force_sync, clone_ok) ==
  IF sc.raised # NoExc
    THEN Finish(Called(acc, "stash_changes", sc.r), "raised",
                Exc("DirtyWorkingTreeError", sc.raised.text))
  ELSE IF sc.stash_id # NoStash
    THEN SyncResolve(
           [Called(acc, "stash_changes", sc.r) EXCEPT
              !.m = register_recovery_action(
                      @, [fn |-> "apply_stash", arg |-> sc.stash_id]),
              !.log = Append(@, "register_recovery_action")],
           cfg, branch_name, force_sync, clone_ok)
  ELSE SyncResolve(Called(acc, "stash_changes", sc.r),
                   cfg, branch_name, force_sync, clone_ok)

\* lines 134-146: cs is what check_sync_status returned or raised
SyncChecked(acc, cs, cfg, branch_name, force_sync, clone_ok) ==
  IF cs.raised # NoExc
    THEN Finish(Called(acc, "check_sync_status", cs.r), "raised", cs.raised)
  ELSE IF cs.is_synced
    THEN Finish(Called(acc, "check_sync_status", cs.r), "up-to-date", NoExc)
  ELSE IF IsDirty(cs.r)
    THEN SyncStashed(Called(acc, "check_sync_status", cs.r),
                     stash_changes(cs.r, <<"auto-stash", branch_name>>),
                     cfg, branch_name, force_sync, clone_ok)
  ELSE SyncResolve(Called(acc, "check_sync_status", cs.r),
                   cfg, branch_name, force_sync, clone_ok)

\* sync_with_main(branch_name, strategy, force_sync)
sync_with_main(m, r, cfg, branch_name, strategy, force_sync, clone_ok) ==
  SyncChecked(NewSync(m, r, strategy),
              check_sync_status(r, cfg.main_branch, branch_name),
              cfg, branch_name, force_sync, clone_ok)

\* force_sync(branch_name, strategy)
force_sync(m, r, cfg, branch_name, strategy, clone_ok) ==
  sync_with_main(m, r, cfg, branch_name, strategy, TRUE, clone_ok)

\* --------------------------------------------------------- BranchManager
\* The repositories of the branch operations have three branch names, a
\* commit day in every commit (r.commits[c].day) and the upstream of every
\* local branch (r.tracking[b]: the name of the branch on origin, "" for
\* none).  r.remote = FALSE: no remote named origin is configured.
\* repo.heads and repo.remotes.origin.refs list the refs in name order
RefOrder == <<"develop", "feature/x", "main">>

\* the day datetime.datetime.now() falls on
Today == 100

\* last_commit_date of a branch whose information could not be read
Inconnue == -1

is_branch_merged_always(r, branch_name, target_branch, is_remote) == TRUE

\* is_branch_merged(repo, branch_name, target_branch, is_remote): the tip is
\* in "git branch --contains <tip> -a" of the target or of origin/<target>
is_branch_merged(r, branch_name, target_branch, is_remote) ==
  IF is_remote /\ r.origin[branch_name] = 0 THEN FALSE
  ELSE IF ~is_remote /\ r.branches[branch_name] = 0 THEN FALSE
  ELSE \E t \in {r.branches[target_branch], r.origin[target_branch]} \ {0} :
          (IF is_remote THEN r.origin[branch_name]
           ELSE r.branches[branch_name]) \in r.commits[t].anc

\* _get_branch_info(branch_name, is_remote): repo.remotes.origin raises in
\* is_branch_merged when there is no origin, and the except branch answers
_get_branch_info(r, main_branch, branch_name, is_remote) ==
  IF ~r.remote
    THEN [name |-> branch_name, is_remote |-> is_remote,
          last_commit_date |-> Inconnue, tracking |-> "",
          is_merged |-> FALSE, is_main |-> branch_name = main_branch]
  ELSE [name |-> branch_name, is_remote |-> is_remote,
        last_commit_date |->
          r.commits[IF is_remote THEN r.origin[branch_name]
                    ELSE r.branches[branch_name]].day,
        tracking |-> IF is_remote THEN "" ELSE r.tracking[branch_name],
        is_merged |-> is_branch_merged(r, branch_name, main_branch, is_remote),
        is_main |-> branch_name = main_branch]

\* list_branches(include_remote): the local branches, then the branches of
\* origin that have no local branch of the same name
list_branches(r, main_branch, include_remote) ==
  LET IsLocal(b) == r.branches[b] # 0
      OnlyRemote(b) == r.branches[b] = 0 /\ r.origin[b] # 0
      Local(names) == [i \in 1..Len(names) |->
                         _get_branch_info(r, main_branch, names[i], FALSE)]
      Remote(names) == [i \in 1..Len(names) |->
                          _get_branch_info(r, main_branch, names[i], TRUE)]
  IN Local(SelectSeq(RefOrder, IsLocal))
     \o (IF include_remote THEN Remote(SelectSeq(RefOrder, OnlyRemote))
         ELSE <<>>)

\* find_merged_branches(include_remote, excluded_branches): excluded is <<>>
\* for None and <<names>> for a list; raised: repo.remotes.origin raised in
\* list_branches
find_merged_branches(r, cfg, include_remote, excluded) ==
  LET excluded_set == (IF excluded = <<>> THEN cfg.exclude_branches
                       ELSE excluded[1]) \cup {cfg.main_branch}
      threshold_date == Today - cfg.age_threshold
      Kept(b) == /\ b.is_merged /\ b.name \notin excluded_set /\ ~b.is_main
                 /\ b.last_commit_date # Inconnue
                      => b.last_commit_date < threshold_date
  IN IF include_remote /\ ~r.remote
       THEN [raised |-> Exc("AttributeError", {}), branches |-> <<>>]
     ELSE [raised |-> NoExc,
           branches |-> SelectSeq(list_branches(r, cfg.main_branch,
                                                include_remote), Kept)]

\* git branch -d <name>: refused unless the tip is merged into the upstream
\* of the branch, or into HEAD when it has none
GitBranchDelete(r, name) ==
  IF r.branches[name] \notin
       r.commits[IF r.tracking[name] # "" THEN r.origin[r.tracking[name]]
                 ELSE HeadCommit(r)].anc
    THEN Fail(r, {"not fully merged"})
  ELSE Ok([r EXCEPT !.branches[name] = 0, !.tracking[name] = ""])

\* delete_branch(repo, branch_name, remote=remote): push_ok says whether
\* origin accepts "git push origin --delete"
delete_branch(r, branch_name, remote, push_ok) ==
  LET saved == save_state(NewManager, r, "pre_delete_branch").r
      del == GitBranchDelete(saved, branch_name)
  IN IF remote /\ ~r.remote
       THEN [r |-> r, raised |-> Exc("GitError", {})]
     ELSE IF remote /\ r.origin[branch_name] = 0
       THEN [r |-> r, raised |-> Exc("MissingBranchError", {})]
     ELSE IF ~remote /\ r.branches[branch_name] = 0
       THEN [r |-> r, raised |-> Exc("MissingBranchError", {})]
     ELSE IF ~remote /\ branch_name = get_current_branch(r)
       THEN [r |-> r, raised |-> Exc("BranchError", {})]
     ELSE IF remote /\ push_ok
       THEN [r |-> [saved EXCEPT !.origin[branch_name] = 0], raised |-> NoExc]
     ELSE IF remote
       THEN [r |-> saved,
             raised |-> safe_git_command(convert_git_error({"remote rejected"}))]
     ELSE IF del.ok THEN [r |-> del.r, raised |-> NoExc]
     ELSE [r |-> del.r, raised |-> Exc("BranchError", del.text)]

\* the loop of clean_merged_branches from the i-th branch on; acc holds the
\* repository, the two result lists, the deletions attempted and the
\* exception that left the loop; "except GitCommandError" is the only
\* handler inside the loop
RECURSIVE CleanFrom(_, _, _, _, _)
CleanFrom(acc, branches, i, include_remote, push_ok) ==
  IF i > Len(branches) \/ acc.raised # NoExc THEN acc
  ELSE
    LET b == branches[i]
        own == delete_branch(acc.r, b.name, b.is_remote, push_ok)
        trk == delete_branch(own.r, b.tracking, TRUE, push_ok)
        tried == Append(acc.attempted, <<b.name, b.is_remote>>)
        Failed(a, d, entry) ==
          IF d.raised.type = "GitCommandError"
            THEN [a EXCEPT !.r = d.r, !.failed = Append(@, entry)]
          ELSE [a EXCEPT !.r = d.r, !.raised = d.raised]
        Cleaned(a, d, entry) ==
          [a EXCEPT !.r = d.r, !.cleaned = Append(@, entry)]
        next ==
          IF b.is_remote /\ ~include_remote THEN acc
          ELSE IF own.raised # NoExc
            THEN Failed([acc EXCEPT !.attempted = tried], own, b.name)
          ELSE IF b.is_remote
            THEN Cleaned([acc EXCEPT !.attempted = tried], own,
                         "origin/" \o b.name)
          ELSE IF ~include_remote \/ b.tracking = ""
            THEN Cleaned([acc EXCEPT !.attempted = tried], own, b.name)
          ELSE IF trk.raised # NoExc
            THEN Failed(Cleaned([acc EXCEPT !.attempted =
                                   Append(tried, <<b.tracking, TRUE>>)],
                                own, b.name),
                        trk, "origin/" \o b.tracking)
          ELSE Cleaned(Cleaned([acc EXCEPT !.attempted =
                                  Append(tried, <<b.tracking, TRUE>>)],
                               own, b.name),
                       trk, "origin/" \o b.tracking)
    IN CleanFrom(next, branches, i + 1, include_remote, push_ok)

\* clean_merged_branches(branches, include_remote)
clean_merged_branches(r, branches, include_remote, push_ok) ==
  CleanFrom([r |-> r, raised |-> NoExc, cleaned |-> <<>>, failed |-> <<>>,
             attempted |-> <<>>],
            branches, 1, include_remote, push_ok)

\* ----------------------------------------------------------------- state
VARIABLES
  repo,   \* the caller's git repository
  mgr,    \* the RecoveryManager instance (saved_states, recovery_actions)
  pc,     \* position of the caller: "idle", "body" (inside a with block), "done"
  call,   \* the call in progress: its arguments and what it saw at entry
  out,    \* the outcome of the last call
  tmp     \* the temporary directories that exist on disk

vars == <<repo, mgr, pc, call, out, tmp>>

NoCall == [op |-> "none"]

BaseRepo == [branches |-> [b \in Branch |-> 1],
             origin |-> [b \in Branch |-> 0],
             cur |-> "main", detached |-> 0,
             commits |-> <<[first |-> 0, anc |-> {1},
                            tree |-> [x \in File |->
                                        IF x = "a.py" THEN 1 ELSE 0]]>>,
             wt |-> {}, stash |-> <<>>,
             inprog |-> NoInprog, hook |-> FALSE, remote |-> FALSE]

\* ------------------------------------------- Spec: RecoveryManager in use
\* A caller registers recovery actions, enters "with safe_operation(name)",
\* runs a body that changes the repository, and leaves the block by
\* returning or by raising.  The repository is one of a clean or edited
\* working tree, or one the user has left in a merge of feature/x into main
\* that stopped on a conflict.
Init ==
  /\ repo \in {[BaseRepo EXCEPT !.cur = b, !.wt = w, !.stash = s] :
                 b \in Branch, w \in SUBSET Change,
                 s \in {<<>>, <<[changes |-> {"u"}, msg |-> <<"user">>]>>}}
               \cup {GitMerge([GitCommit([GitCommit(BaseRepo, "a.py", 2)
                                            EXCEPT !.cur = "feature/x"],
                                          "a.py", 3)
                                  EXCEPT !.cur = "main"],
                               "feature/x", TRUE).r}
  /\ mgr = NewManager
  /\ pc = "idle"
  /\ call = NoCall
  /\ out = NoCall
  /\ tmp = {}

\* recovery.register_recovery_action(a)
Register(a) ==
  /\ pc = "idle"
  /\ Len(mgr.recovery_actions) < MaxActions
  /\ mgr' = register_recovery_action(mgr, a)
  /\ UNCHANGED <<repo, pc, call, out, tmp>>

\* entry of "with recovery.safe_operation(name, cb)": save_state(name)
SafeOperationEnter(cb) ==
  /\ pc = "idle"
  /\ \E s \in {save_state(mgr, repo, "op")} :
        /\ repo' = s.r
        /\ mgr' = s.m
        /\ call' = [op |-> "safe_operation", name |-> "op", cb |-> cb,
                    branch |-> repo.cur, head |-> HeadCommit(repo),
                    wt |-> repo.wt, stash |-> repo.stash,
                    stored |-> s.stored, nbody |-> 0, changed |-> FALSE]
  /\ pc' = "body"
  /\ UNCHANGED <<out, tmp>>

\* bookkeeping of a body statement that leaves the repository as r
BodyStep(r) ==
  /\ pc = "body"
  /\ call.nbody < MaxBody
  /\ repo' = r
  /\ call' = [call EXCEPT
                !.nbody = @ + 1,
                !.changed = @ \/ r.cur # call.branch
                              \/ HeadCommit(r) # call.head]
  /\ UNCHANGED <<pc, out, tmp>>

\* the body commits on the checked-out branch (git refuses to commit while
\* paths are unmerged)
BodyCommit ==
  /\ Len(repo.commits) < MaxCommits
  /\ repo.inprog.conflicts = {}
  /\ BodyStep(GitCommit(repo, "a.py", 2))
  /\ UNCHANGED mgr

\* the body switches to another branch
BodyCheckout(b) ==
  /\ b # repo.cur
  /\ \E c \in {GitCheckout(repo, b)} : c.ok /\ BodyStep(c.r)
  /\ UNCHANGED mgr

\* the body leaves an uncommitted change in the working tree
BodyEdit(ch) ==
  /\ ch \notin repo.wt
  /\ BodyStep([repo EXCEPT !.wt = @ \cup {ch}])
  /\ UNCHANGED mgr

\* the body saves a second state under another name, as merge_branch,
\* rebase_branch and apply_stash do
BodySaveState ==
  /\ pc = "body"
  /\ \E s \in {save_state(mgr, repo, "pre_op")} :
        BodyStep(s.r) /\ mgr' = s.m

\* the body raises e: the except block of safe_operation runs
BodyRaise(e) ==
  /\ pc = "body"
  /\ \E h \in {ExceptAfterRestore(restore_state(mgr, repo, call.name, FALSE),
                                   e, call.cb)} :
        /\ repo' = h.r
        /\ mgr' = h.m
        /\ out' = [op |-> "safe_operation", body_exc |-> e,
                   raised |-> h.raised, restored |-> h.restored,
                   inner |-> h.inner, actions_run |-> h.actions_run,
                   actions_ok |-> h.actions_ok,
                   at_raise |-> [branch |-> repo.cur, head |-> HeadCommit(repo)]]
  /\ pc' = "done"
  /\ UNCHANGED <<call, tmp>>

\* the body completes: the with block is left normally
BodyReturn ==
  /\ pc = "body"
  /\ out' = [op |-> "safe_operation", body_exc |-> NoExc, raised |-> NoExc,
             restored |-> FALSE, inner |-> NoExc, actions_run |-> FALSE,
             actions_ok |-> TRUE,
             at_raise |-> [branch |-> repo.cur, head |-> HeadCommit(repo)]]
  /\ pc' = "done"
  /\ UNCHANGED <<repo, mgr, call, tmp>>

Next ==
  \/ \E a \in {[fn |-> "callable", arg |-> "ok"],
               [fn |-> "callable", arg |-> "raises"],
               [fn |-> "apply_stash", arg |-> 0]} : Register(a)
  \/ \E cb \in {"none", "ok", "raises"} : SafeOperationEnter(cb)
  \/ BodyCommit
  \/ \E b \in Branch : BodyCheckout(b)
  \/ \E ch \in Change : BodyEdit(ch)
  \/ BodySaveState
  \/ \E e \in {Exc("ValueError", {}), Exc("GitCommandError", {"conflict"})} :
        BodyRaise(e)
  \/ BodyReturn

Spec == Init /\ [][Next]_vars

\* C1: when the body of safe_operation(name) raised after it had moved HEAD
\* or switched branch, the current branch and the HEAD commit after
\* safe_operation has re-raised are those recorded by save_state at entry.
C1_RollbackComplete ==
  (pc = "done" /\ out.body_exc # NoExc /\ call.stored /\ call.changed)
    => (repo.cur = call.branch /\ HeadCommit(repo) = call.head)

\* C2: the exception that leaves safe_operation is the exception the body
\* raised, whether restore_state, the recovery callback or a registered
\* recovery action succeeded or raised.
C2_OriginalExceptionPropagates ==
  (pc = "done" /\ out.op = "safe_operation") => out.raised = out.body_exc

\* C2 witness: restore_state raised during the rollback and the body's
\* exception still left safe_operation
C2_Witness_RestoreRaised ==
  /\ pc = "done"
  /\ out.body_exc # NoExc
  /\ out.inner # NoExc
  /\ out.inner.type # "CallbackError"
  /\ out.raised = out.body_exc

\* ------------------------------------- SpecSync: SyncManager.sync_with_main
\* The user commits on main and on feature/x, then asks for one
\* synchronisation with the integration branch.
DefaultConfig ==
  [main_branch |-> "main", default_strategy |-> "rebase",
   rebase_threshold |-> 5, consider_branch_age |-> TRUE,
   force_merge_patterns |-> <<"feature/*", "release/*">>,
   force_rebase_patterns |-> <<"fix/*", "chore/*">>,
   show_diff |-> TRUE,
   exclude_branches |-> {"develop", "staging"}, age_threshold |-> 30]

\* the strategy argument with the configuration it is used with
SyncModes ==
  {<<"merge", DefaultConfig>>, <<"rebase", DefaultConfig>>,
   <<"auto", DefaultConfig>>, <<"auto", [DefaultConfig EXCEPT !.default_strategy = "auto",
                                   !.rebase_threshold = 0]>>}

\* the changes a commit of the user makes: <<file, new content>>
Edits == {<<"a.py", 2>>, <<"a.py", 3>>, <<"a.py", 0>>, <<"n.txt", 1>>, <<"n.txt", 2>>}

InitSync ==
  /\ repo \in {[BaseRepo EXCEPT
                   !.wt = w, !.hook = h, !.remote = o,
                   !.origin = [b \in Branch |-> IF o THEN 1 ELSE 0]] :
                 w \in {{}, Change, Submodule}, h \in BOOLEAN, o \in BOOLEAN}
  /\ mgr = NewManager
  /\ pc = "setup"
  /\ call = NoCall
  /\ out = NoCall
  /\ tmp = {}

\* the user commits a change of one file on the checked-out branch; the
\* uncommitted changes of the model are in other files and stay
UserCommit(e) ==
  /\ pc = "setup"
  /\ Len(repo.commits) <= MaxSetup
  /\ repo.commits[HeadCommit(repo)].tree[e[1]] # e[2]
  /\ repo' = [GitCommit(repo, e[1], e[2]) EXCEPT !.wt = repo.wt]
  /\ UNCHANGED <<mgr, pc, call, out, tmp>>

\* the user switches branch, carrying the uncommitted changes along
UserCheckout(b) ==
  /\ pc = "setup"
  /\ b # repo.cur
  /\ repo' = GitCheckout(repo, b).r
  /\ UNCHANGED <<mgr, pc, call, out, tmp>>

SyncCall(branch_name, mode, force, clone_ok) ==
  [op |-> "sync_with_main", branch |-> branch_name, strategy |-> mode[1],
   cfg |-> mode[2], force_sync |-> force, clone_ok |-> clone_ok,
   repo |-> repo]

SyncReturn(c, res) ==
  /\ repo' = res.r
  /\ mgr' = res.m
  /\ tmp' = res.tmp
  /\ call' = c
  /\ out' = [op |-> "sync_with_main", status |-> res.status,
             raised |-> res.raised, log |-> res.log,
             strategy |-> res.strategy, report |-> res.report,
             prechecked |-> res.prechecked, resolved |-> res.resolved,
             stepped |-> res.stepped, pre |-> res.pre]
  /\ pc' = "done"

\* SyncManager(repo, config).sync_with_main(branch_name, strategy)
SyncWithMain(branch_name, mode, clone_ok) ==
  /\ pc = "setup"
  /\ \E res \in {sync_with_main(mgr, repo, mode[2], branch_name, mode[1],
                                FALSE, clone_ok)} :
        SyncReturn(SyncCall(branch_name, mode, FALSE, clone_ok), res)

\* SyncManager(repo, config).force_sync(branch_name, strategy)
ForceSync(branch_name, mode, clone_ok) ==
  /\ pc = "setup"
  /\ \E res \in {force_sync(mgr, repo, mode[2], branch_name, mode[1],
                            clone_ok)} :
        SyncReturn(SyncCall(branch_name, mode, TRUE, clone_ok), res)

\* SyncManager(repo, config).check_sync_status(branch_name)
CheckSyncStatus(branch_name) ==
  /\ pc = "setup"
  /\ \E st \in {check_sync_status(repo, DefaultConfig.main_branch,
                                   branch_name)} :
        /\ repo' = st.r
        /\ call' = [op |-> "check_sync_status", branch |-> branch_name,
                    cfg |-> DefaultConfig, repo |-> repo]
        /\ out' = [op |-> "check_sync_status", raised |-> st.raised,
                   is_synced |-> st.is_synced,
                   ahead_commits |-> st.ahead_commits,
                   behind_commits |-> st.behind_commits]
        /\ pc' = "done"
  /\ UNCHANGED <<mgr, tmp>>

SpecSync ==
  InitSync
  /\ [][\/ \E e \in Edits : UserCommit(e)
        \/ \E b \in Branch : UserCheckout(b)
        \/ \E b \in Branch : CheckSyncStatus(b)
        \/ \E b \in Branch, mode \in SyncModes, ok \in BOOLEAN :
              SyncWithMain(b, mode, ok)
        \/ \E b \in Branch, mode \in SyncModes :
              ForceSync(b, mode, TRUE)]_vars

\* C3: when sync_with_main is called on a branch that is behind the
\* integration branch with uncommitted changes in the working tree, the
\* uncommitted changes are back in the working tree once it has returned or
\* raised, whatever the outcome.
C3_UncommittedChangesRestored ==
  (pc = "done" /\ out.op = "sync_with_main"
     /\ call.branch # call.cfg.main_branch
     /\ get_branch_divergence(call.repo, call.branch,
                              call.cfg.main_branch).behind > 0
     /\ call.repo.wt # {})
    => repo.wt = call.repo.wt

\* C4: without force_sync, sync_with_main never calls merge_branch or
\* rebase_branch when detect_conflicts(branch, integration branch) reports
\* has_conflicts: it returns the status "conflicts"; and the precheck has run
\* before every merge or rebase that was not forced.
C4_PrecheckGuardsTheStep ==
  (pc = "done" /\ out.op = "sync_with_main" /\ ~call.force_sync)
    => /\ detect_conflicts(call.repo, call.branch, call.cfg.main_branch,
                           call.cfg.show_diff, call.clone_ok).report.has_conflicts
            => /\ \A i \in 1..Len(out.log) :
                    out.log[i] \notin {"merge_branch", "rebase_branch"}
               /\ out.resolved => out.status = "conflicts"
       /\ out.stepped => out.prechecked

\* C4 witness: a synchronisation that was not forced stopped at a predicted
\* conflict
C4_Witness_ConflictsReturned ==
  /\ pc = "done"
  /\ out.op = "sync_with_main"
  /\ ~call.force_sync
  /\ out.prechecked
  /\ out.report.has_conflicts
  /\ out.status = "conflicts"

\* C8: when the merge or rebase step of sync_with_main failed, with a
\* conflict or with another git error, the repository is back in the state
\* it had before the step once sync_with_main has returned
\* "conflict_occurred" or raised: same current branch, same HEAD, same tip
\* of the synchronised branch, no merge and no rebase in progress.
C8_FailedStepRolledBack ==
  (pc = "done" /\ out.op = "sync_with_main" /\ out.stepped
     /\ out.status \in {"conflict_occurred", "raised"})
    => /\ repo.cur = out.pre.cur
       /\ HeadCommit(repo) = HeadCommit(out.pre)
       /\ repo.branches[call.branch] = out.pre.branches[call.branch]
       /\ repo.inprog = NoInprog

\* C8 witness: a rebase stopped on a conflict while another branch than the
\* synchronised one was checked out, and the repository is as before
C8_Witness_RebaseConflict ==
  /\ pc = "done"
  /\ out.op = "sync_with_main"
  /\ out.stepped
  /\ out.status = "conflict_occurred"
  /\ out.strategy = "rebase"
  /\ call.repo.cur # call.branch
  /\ repo.cur = out.pre.cur
  /\ repo.inprog = NoInprog

\* --------------------------- SpecDetect: ConflictDetector.detect_conflicts
\* The user commits on main and on feature/x, then asks whether a branch
\* conflicts with another, or with itself; "gone" is the name of a branch
\* that does not exist.
DetectConflicts(source, target, show_diff, clone_ok) ==
  /\ pc = "setup"
  /\ \E d \in {detect_conflicts(repo, source, target, show_diff, clone_ok)} :
        /\ repo' = d.r
        /\ tmp' = d.tmp
        /\ out' = [op |-> "detect_conflicts", report |-> d.report,
                   trial |-> d.trial]
  /\ call' = [op |-> "detect_conflicts", source |-> source, target |-> target,
              show_diff |-> show_diff, clone_ok |-> clone_ok, repo |-> repo]
  /\ pc' = "done"
  /\ UNCHANGED mgr

\* StrategyAdvisor(repo, config).get_strategy_advice(branch_name, target):
\* _analyze_branch runs first (divergence, age, commit count, modified
\* files, detect_conflicts), then _check_forced_strategy, then
\* _determine_strategy; age is what get_branch_age answers.  queries lists
\* the calls made and trial tells how the trial merge of detect_conflicts
\* ended.
StrategyAdviceCall(branch_name, target_branch, cfg, age, clone_ok) ==
  /\ pc = "setup"
  /\ Resolve(repo, branch_name) # 0
  /\ \E d \in {detect_conflicts(repo, branch_name, target_branch,
                                 cfg.show_diff, clone_ok)} :
       \E obs \in {[raises |-> FALSE,
                     ahead |-> get_branch_divergence(repo, branch_name,
                                                     target_branch).ahead,
                     age |-> age,
                     config_files |-> 0,
                     code_files |->
                       Cardinality(
                         get_modified_files(
                           repo,
                           get_common_ancestor(repo, branch_name,
                                               target_branch),
                           branch_name) \cap {"a.py"}),
                     report |-> d.report]} :
          /\ repo' = IF branch_name = target_branch THEN repo ELSE d.r
          /\ tmp' = IF branch_name = target_branch THEN tmp ELSE d.tmp
          /\ out' = [op |-> "get_strategy_advice",
                     strategy |-> get_strategy_advice(cfg, branch_name,
                                                      target_branch, obs),
                     trial |-> IF branch_name = target_branch THEN "none"
                               ELSE d.trial,
                     queries |->
                       IF branch_name = target_branch THEN <<>>
                       ELSE <<"get_branch_divergence", "get_branch_age",
                              "get_branch_commit_count",
                              "get_common_ancestor", "get_modified_files",
                              "detect_conflicts", "_check_forced_strategy">>
                            \o (IF _check_forced_strategy(cfg, branch_name)
                                     = ""
                                THEN <<"_determine_strategy">> ELSE <<>>)]
  /\ call' = [op |-> "get_strategy_advice", branch |-> branch_name,
              target |-> target_branch, cfg |-> cfg, repo |-> repo]
  /\ pc' = "done"
  /\ UNCHANGED mgr

SpecDetect ==
  InitSync
  /\ [][\/ \E e \in Edits : UserCommit(e)
        \/ \E b \in Branch : UserCheckout(b)
        \/ \E s \in Branch \cup {"gone"}, t \in Branch, sd \in BOOLEAN,
                 ok \in BOOLEAN :
              DetectConflicts(s, t, sd, ok)
        \/ \E sd \in BOOLEAN, ok \in BOOLEAN :
              DetectConflicts("gone", "gone", sd, ok)
        \/ \E b \in Branch, t \in Branch, age \in {2, 40}, ok \in BOOLEAN,
                 cfg \in {DefaultConfig,
                          [DefaultConfig EXCEPT
                             !.force_merge_patterns = <<>>]} :
              StrategyAdviceCall(b, t, cfg, age, ok)]_vars

\* C5: detect_conflicts leaves the caller's repository as it was on every
\* path (branch, HEAD, branch tips, uncommitted changes, stash list, nothing
\* in progress), whether or not the working tree is clean, and no temporary
\* clone is left when it returns.
C5_CallerRepositoryUntouched ==
  (pc = "done" /\ out.op = "detect_conflicts")
    => (repo = call.repo /\ tmp = {})

\* C5 witness: with uncommitted changes in the caller's working tree and
\* another branch than the target checked out, the trial merge found a
\* conflict, and the repository is as it was
C5_Witness_ConflictFoundDirtyTree ==
  /\ pc = "done"
  /\ out.op = "detect_conflicts"
  /\ out.trial = "failed"
  /\ out.report.has_conflicts
  /\ call.repo.wt # {}
  /\ call.repo.cur # call.target
  /\ repo = call.repo

\* C6: detect_conflicts gives no false negative: it reports
\* has_conflicts = False only for branches whose merge goes through (same
\* branch, no file modified on both sides, or a trial merge that completed),
\* never for two branches whose merge stops on a conflict.  The branches are
\* existing ones.
C6_NoFalseNegative ==
  (pc = "done" /\ out.op = "detect_conflicts" /\ ~out.report.has_conflicts
     /\ Resolve(call.repo, call.source) # 0)
    => Unmerged(
         call.repo.commits[get_common_ancestor(call.repo, call.source,
                                               call.target)].tree,
         call.repo.commits[Resolve(call.repo, call.target)].tree,
         call.repo.commits[Resolve(call.repo, call.source)].tree) = {}

\* C7: in a report of detect_conflicts without error note, has_conflicts is
\* true exactly when conflicting_files is not empty; and a simulation that
\* failed gives a report with an error note and without an entry for it in
\* conflicting_files.
C7_ReportConsistent ==
  (pc = "done" /\ out.op = "detect_conflicts")
    => /\ out.report.error = ""
            => (out.report.has_conflicts
                  <=> Len(out.report.conflicting_files) > 0)
       /\ out.trial = "error"
            => /\ out.report.error # ""
               /\ \A i \in 1..Len(out.report.conflicting_files) :
                     out.report.conflicting_files[i].file_path # SimulationError

\* ------------------- SpecAdvice: the two strategy resolutions side by side
\* A branch name, a configuration and what the analysis observes of the
\* repository are drawn; StrategyAdvisor.get_strategy_advice and
\* SyncManager._determine_sync_strategy are applied to them.
\* The reports of detect_conflicts are: no conflict, one conflict of low
\* severity, one of high severity, four of low severity.
InitAdvice ==
  /\ repo = BaseRepo
  /\ mgr = NewManager
  /\ pc = "setup"
  /\ call \in [op : {"strategy"},
               name : {"main", "feature/x", "fix/y", "topic", "feat/z",
                       "hotfix/w"},
               target : {"main"},
               cfg : {[DefaultConfig EXCEPT !.default_strategy = st,
                                            !.rebase_threshold = t] :
                        st \in {"merge", "rebase", "auto"}, t \in {0, 5}},
               obs : [raises : BOOLEAN, ahead : 0..MaxAhead,
                      age : {2, 10, 40}, config_files : {0, 1},
                      code_files : {0, 11},
                      report :
                        {Report(FALSE, <<>>, TRUE, ""),
                         Report(TRUE,
                                <<ConflictEntry("n.txt",
                                    [conflict_type |-> "Documentation",
                                     severity |-> "Faible"])>>, TRUE, ""),
                         Report(TRUE, <<ErrorEntry("a.py")>>, TRUE, ""),
                         Report(TRUE,
                                [i \in 1..4 |->
                                   ConflictEntry("n.txt",
                                     [conflict_type |-> "Documentation",
                                      severity |-> "Faible"])], TRUE, "")}]]
  /\ out = [op |-> "strategy", advice |-> "", sync |-> ""]
  /\ tmp = {}

StrategyReturn(o) ==
  /\ out' = o
  /\ pc' = IF o.advice # "" /\ o.sync # "" THEN "done" ELSE pc
  /\ UNCHANGED <<repo, mgr, call, tmp>>

\* StrategyAdvisor(repo, config).get_strategy_advice(name, target)
GetStrategyAdvice ==
  /\ out.advice = ""
  /\ StrategyReturn([out EXCEPT !.advice =
       get_strategy_advice(call.cfg, call.name, call.target, call.obs)])

\* SyncManager(repo, config)._determine_sync_strategy(name, target)
DetermineSyncStrategy ==
  /\ out.sync = ""
  /\ StrategyReturn([out EXCEPT !.sync =
       SyncStrategyFrom(call.cfg, call.name, call.obs)])

SpecAdvice ==
  InitAdvice /\ [][GetStrategyAdvice \/ DetermineSyncStrategy]_vars

\* C9: for every branch other than the target, every configuration and
\* every observed repository state whose analysis goes through, the strategy
\* that _determine_sync_strategy resolves for "auto" is the strategy that
\* get_strategy_advice returns for the same branch and target.
C9_AutoAgreesWithAdvisor ==
  (pc = "done" /\ out.op = "strategy" /\ call.name # call.target
     /\ ~call.obs.raises)
    => out.sync = out.advice

\* C10: for a branch other than the target, get_strategy_advice returns
\* "merge" when the name matches a force-merge pattern, and "rebase" when it
\* matches a force-rebase pattern and no force-merge pattern, whatever the
\* scoring factors are and whatever happens while the analysis data is
\* gathered.
C10_ForcedStrategyWins ==
  (out.op = "strategy" /\ out.advice # "" /\ call.name # call.target)
    => /\ AnyMatch(call.name, call.cfg.force_merge_patterns)
            => out.advice = "merge"
       /\ (AnyMatch(call.name, call.cfg.force_rebase_patterns)
           /\ ~AnyMatch(call.name, call.cfg.force_merge_patterns))
            => out.advice = "rebase"

\* C11: for every analysis with no forced pattern, the advisor answers
\* "merge" or "rebase"; it answers "rebase" only when strictly more
\* rebase-favouring than merge-favouring factors apply, and "merge" when the
\* two counts are equal.
C11_TieGivesMerge ==
  (out.op = "strategy" /\ out.advice # "" /\ call.name # call.target
     /\ ~call.obs.raises /\ _check_forced_strategy(call.cfg, call.name) = "")
    => /\ out.advice \in {"merge", "rebase"}
       /\ out.advice = "rebase"
            => RebaseFactors(call.cfg, _analyze_branch(call.obs, call.name))
               > MergeFactors(call.cfg, _analyze_branch(call.obs, call.name))
       /\ RebaseFactors(call.cfg, _analyze_branch(call.obs, call.name))
          = MergeFactors(call.cfg, _analyze_branch(call.obs, call.name))
            => out.advice = "merge"

\* a branch without forced pattern whose factors are balanced, two against
\* two, was answered "merge"
C11_Witness_BalancedFactors ==
  /\ out.op = "strategy" /\ out.advice = "merge" /\ ~call.obs.raises
  /\ call.name = "feat/z"
  /\ RebaseFactors(call.cfg, _analyze_branch(call.obs, call.name)) = 2
  /\ MergeFactors(call.cfg, _analyze_branch(call.obs, call.name)) = 2

\* C12: for the branch feature/x with 3 commits ahead, a last commit 2 days
\* old, no configuration or code file touched and no conflict with the
\* target, get_strategy_advice returns "rebase".
C12_SmallRecentFeatureBranchRebased ==
  (out.op = "strategy" /\ out.advice # "" /\ call.name = "feature/x"
     /\ call.target = "main" /\ ~call.obs.raises /\ call.obs.ahead = 3
     /\ call.obs.age = 2 /\ call.obs.config_files = 0
     /\ call.obs.code_files = 0 /\ ~call.obs.report.has_conflicts)
    => out.advice = "rebase"

\* C13: check_sync_status never raises because the refresh of the remote
\* refs failed: it returns the status computed from the divergence of the
\* local refs; for the integration branch it returns is_synced with 0 ahead
\* and 0 behind and leaves the repository as it was.
C13_FetchFailureNotFatal ==
  (pc = "done" /\ out.op = "check_sync_status")
    => /\ out.raised = NoExc
       /\ out.ahead_commits
            = get_branch_divergence(call.repo, call.branch,
                                    call.cfg.main_branch).ahead
       /\ out.behind_commits
            = get_branch_divergence(call.repo, call.branch,
                                    call.cfg.main_branch).behind
       /\ out.is_synced = (out.behind_commits = 0)
       /\ call.branch = call.cfg.main_branch
            => out.is_synced /\ out.ahead_commits = 0 /\ repo = call.repo

\* C14: when the working tree is dirty at the dirty-tree handling of
\* sync_with_main and the automatic stash did not stash the changes
\* (stash_changes raised, or returned no stash), sync_with_main raises
\* DirtyWorkingTreeError and calls neither merge_branch nor rebase_branch.
C14_FailedStashStopsSync ==
  (pc = "done" /\ out.op = "sync_with_main"
     /\ (\E i \in 1..Len(out.log) : out.log[i] = "stash_changes")
     /\ (\A j \in 1..Len(out.log) : out.log[j] # "register_recovery_action"))
    => /\ out.raised.type = "DirtyWorkingTreeError"
       /\ \A k \in 1..Len(out.log) :
             out.log[k] \notin {"merge_branch", "rebase_branch"}

\* ------------------------------------------ SpecBranch: branch clean-up
\* main is at commit 2, whose parent is commit 1; commit 3 is a second child
\* of commit 1 that main does not contain.  Commit days 60 are older and 80
\* newer than the threshold of 30 days before Today.
InitBranch ==
  /\ repo \in
       {[branches |-> [b \in {"main", "feature/x", "develop"} |->
                         IF b = "main" THEN 2
                         ELSE IF b = "develop" THEN dev ELSE fx],
         origin |-> [b \in {"main", "feature/x", "develop"} |->
                       IF ~o THEN 0
                       ELSE IF b = "main" THEN 2
                       ELSE IF b = "develop" THEN 3 ELSE ofx],
         tracking |-> [b \in {"main", "feature/x", "develop"} |->
                         IF o /\ trk /\ b = "feature/x" /\ fx # 0 /\ ofx # 0
                         THEN b ELSE ""],
         cur |-> IF fx = 3 /\ w = {} THEN "feature/x" ELSE "main",
         detached |-> 0,
         commits |-> <<[first |-> 0, anc |-> {1}, day |-> 50,
                        tree |-> [f \in File |-> 1]],
                       [first |-> 1, anc |-> {1, 2}, day |-> d2,
                        tree |-> [f \in File |-> 1]],
                       [first |-> 1, anc |-> {1, 3}, day |-> d3,
                        tree |-> [f \in File |-> 2]]>>,
         wt |-> w, stash |-> <<>>, inprog |-> NoInprog, hook |-> FALSE,
         remote |-> o] :
          fx \in 0..3, dev \in {0, 2}, ofx \in {0, 2, 3}, o \in BOOLEAN,
          trk \in BOOLEAN, d2 \in {60, 80}, d3 \in {60, 80},
          w \in {{}, {"t"}}}
  /\ mgr = NewManager
  /\ pc = "setup"
  /\ call = NoCall
  /\ out = NoCall
  /\ tmp = {}

\* BranchManager(repo, config).find_merged_branches(include_remote,
\* excluded_branches)
FindMergedBranches(include_remote, excluded) ==
  /\ pc = "setup"
  /\ \E res \in {find_merged_branches(repo, DefaultConfig, include_remote,
                                      excluded)} :
        out' = [op |-> "find_merged_branches", raised |-> res.raised,
                branches |-> res.branches]
  /\ call' = [op |-> "find_merged_branches", cfg |-> DefaultConfig,
              include_remote |-> include_remote, excluded |-> excluded]
  /\ pc' = "done"
  /\ UNCHANGED <<repo, mgr, tmp>>

\* BranchManager(repo, config).clean_merged_branches(branches,
\* include_remote) on the list that find_merged_branches returns, or on a
\* list of the caller: every branch of the repository, local or on origin
CleanMergedBranches(own_list, include_remote, push_ok) ==
  /\ pc = "setup"
  /\ own_list => repo.remote
  /\ \E found \in {IF own_list
                   THEN [raised |-> NoExc,
                         branches |-> list_branches(repo,
                                        DefaultConfig.main_branch, TRUE)]
                   ELSE find_merged_branches(repo, DefaultConfig,
                                             include_remote, <<>>)} :
       \E res \in {clean_merged_branches(repo, found.branches,
                                         include_remote, push_ok)} :
          /\ repo' = IF found.raised # NoExc THEN repo ELSE res.r
          /\ call' = [op |-> "clean_merged_branches",
                      branches |-> found.branches,
                      include_remote |-> include_remote, repo |-> repo]
          /\ out' = IF found.raised # NoExc
                    THEN [op |-> "clean_merged_branches",
                          raised |-> found.raised, cleaned |-> <<>>,
                          failed |-> <<>>, attempted |-> <<>>]
                    ELSE [op |-> "clean_merged_branches",
                          raised |-> res.raised, cleaned |-> res.cleaned,
                          failed |-> res.failed, attempted |-> res.attempted]
  /\ pc' = "done"
  /\ UNCHANGED <<mgr, tmp>>

SpecBranch ==
  InitBranch
  /\ [][\/ \E ir \in BOOLEAN,
             ex \in {<<>>, <<{}>>, <<{"feature/x"}>>} :
             FindMergedBranches(ir, ex)
        \/ \E own \in BOOLEAN, ir \in BOOLEAN, ok \in BOOLEAN :
             CleanMergedBranches(own, ir, ok)]_vars

C16_DeletionFailuresCollected ==
  (pc = "done" /\ out.op = "clean_merged_branches"
     /\ out.raised.type # "AttributeError")
    => /\ out.raised = NoExc
       /\ \A i \in 1..Len(call.branches) :
             (~call.branches[i].is_remote \/ call.include_remote)
               => \E j \in 1..Len(out.attempted) :
                     out.attempted[j] = <<call.branches[i].name,
                                          call.branches[i].is_remote>>

\* ------------------------- SpecRestore: save_state and restore_state calls
\* A caller saves states under two names and restores them, with and
\* without force, while the user edits files, switches branch and deletes
\* a branch in between.  out carries the history of the stash entries: ids
\* numbers the entries of repo.stash in the order of creation, applied lists
\* the numbers of the entries that "git stash apply" has applied.
InitRestore ==
  /\ repo \in {[BaseRepo EXCEPT !.cur = b, !.wt = w] :
                 b \in Branch, w \in SUBSET Change}
  /\ mgr = NewManager
  /\ pc = "api"
  /\ call = NoCall
  /\ out = [op |-> "none", n |-> 0, made |-> 0, ids |-> <<>>,
            applied |-> <<>>]
  /\ tmp = {}

\* the user goes on working: a new uncommitted change, another branch
\* checked out, or a branch deleted with git branch -D
UserWork(r) ==
  /\ pc = "api"
  /\ out.n < MaxCalls
  /\ r # repo
  /\ repo' = r
  /\ call' = NoCall
  /\ out' = [out EXCEPT !.op = "none", !.n = @ + 1]
  /\ UNCHANGED <<mgr, pc, tmp>>

\* recovery.save_state(name)
SaveState(name) ==
  /\ pc = "api"
  /\ out.n < MaxCalls
  /\ \E s \in {save_state(mgr, repo, name)} :
        /\ repo' = s.r
        /\ mgr' = s.m
        /\ out' = [out EXCEPT
                     !.op = "save_state", !.n = @ + 1,
                     !.made = IF Len(s.r.stash) > Len(repo.stash)
                              THEN @ + 1 ELSE @,
                     !.ids = IF Len(s.r.stash) > Len(repo.stash)
                             THEN <<out.made + 1>> \o @ ELSE @]
  /\ call' = [op |-> "save_state", name |-> name,
              again |-> call.op = "save_state" /\ call.name = name,
              repo |-> IF call.op = "save_state" /\ call.name = name
                       THEN call.repo ELSE repo,
              mgr |-> IF call.op = "save_state" /\ call.name = name
                      THEN call.mgr ELSE mgr]
  /\ UNCHANGED <<pc, tmp>>

\* recovery.restore_state(name, force)
RestoreState(name, force) ==
  /\ pc = "api"
  /\ out.n < MaxCalls
  /\ \E res \in {restore_state(mgr, repo, name, force)} :
        /\ repo' = res.r
        /\ mgr' = res.m
        /\ out' = [op |-> "restore_state", n |-> out.n + 1,
                   made |-> out.made,
                   exc |-> res.exc, steps |-> res.steps,
                   failed |-> res.failed,
                   ids |-> IF Len(res.r.stash) < Len(repo.stash)
                           THEN SubSeq(out.ids, 1,
                                       mgr.saved_states[name].stash_id)
                                \o SubSeq(out.ids,
                                          mgr.saved_states[name].stash_id + 2,
                                          Len(out.ids))
                           ELSE out.ids,
                   applied |-> IF res.applied
                               THEN Append(out.applied,
                                      out.ids[mgr.saved_states[name].stash_id
                                              + 1])
                               ELSE out.applied]
  /\ call' = [op |-> "restore_state", name |-> name, force |-> force,
              repo |-> repo, mgr |-> mgr]
  /\ UNCHANGED <<pc, tmp>>

SpecRestore ==
  InitRestore
  /\ [][\/ \E ch \in Change : UserWork([repo EXCEPT !.wt = @ \cup {ch}])
        \/ \E b \in Branch :
             UserWork(IF b = repo.cur THEN repo ELSE GitCheckout(repo, b).r)
        \/ \E b \in Branch :
             UserWork(IF b = repo.cur THEN repo
                      ELSE [repo EXCEPT !.branches[b] = 0])
        \/ \E name \in {"a", "b"} : SaveState(name)
        \/ \E name \in {"a", "b"}, force \in BOOLEAN :
             RestoreState(name, force)]_vars

\* C17: after a successful restore_state(name) the saved state is removed; a
\* restore_state of a name without saved state raises RecoveryError and
\* leaves the repository as it was; and over every sequence of save_state
\* and restore_state calls no stash entry is applied to the working tree
\* more than once.
C17_StateConsumedStashAppliedOnce ==
  /\ (out.op = "restore_state" /\ out.exc = NoExc)
       => call.name \notin DOMAIN mgr.saved_states
  /\ (out.op = "restore_state"
      /\ call.name \notin DOMAIN call.mgr.saved_states)
       => out.exc.type = "RecoveryError" /\ repo = call.repo
          /\ mgr = call.mgr
  /\ \A i \in 1..Len(out.applied) :
       \A j \in 1..Len(out.applied) :
         i # j => out.applied[i] # out.applied[j]

\* C17 witness: a state whose stash had been applied by a successful
\* restore_state was restored a second time
C17_Witness_SecondRestoreRefused ==
  /\ out.op = "restore_state"
  /\ out.exc.type = "RecoveryError"
  /\ call.name \notin DOMAIN call.mgr.saved_states
  /\ out.applied # <<>>

C19_SaveStateIdempotent ==
  (out.op = "save_state" /\ call.again)
    => LET once == save_state(call.mgr, call.repo, call.name)
           r1 == restore_state(once.m, once.r, call.name, FALSE).r
           r2 == restore_state(mgr, repo, call.name, FALSE).r
       IN /\ r2.cur = r1.cur
          /\ HeadCommit(r2) = HeadCommit(r1)
          /\ r2.wt = r1.wt

\* ------------------------------------------------------- SpecDivergence
\* The histories that the two divergence functions are applied to: commit 1
\* is a root, 2 and 3 are children of 1, 4 is a child of 2, 5 is a second
\* root (an orphan branch); each branch points to one of them or does not
\* exist (0).
InitDivergence ==
  /\ repo \in
       {[BaseRepo EXCEPT
           !.commits = <<[first |-> 0, anc |-> {1},
                          tree |-> [f \in File |-> 1]],
                         [first |-> 1, anc |-> {1, 2},
                          tree |-> [f \in File |-> 2]],
                         [first |-> 1, anc |-> {1, 3},
                          tree |-> [f \in File |-> 3]],
                         [first |-> 2, anc |-> {1, 2, 4},
                          tree |-> [f \in File |-> 4]],
                         [first |-> 0, anc |-> {5},
                          tree |-> [f \in File |-> 5]]>>,
           !.branches = [b \in Branch |-> IF b = "main" THEN m ELSE fx],
           !.cur = IF m # 0 THEN "main" ELSE "feature/x"] :
          m \in 0..5, fx \in 0..5}
  /\ repo.branches[repo.cur] # 0
  /\ mgr = NewManager
  /\ pc = "setup"
  /\ call = NoCall
  /\ out = NoCall
  /\ tmp = {}

\* git_commands.get_branch_divergence(repo, branch_name, target_branch)
GetBranchDivergence(branch_name, target_branch) ==
  /\ pc = "setup"
  /\ call' = [op |-> "get_branch_divergence", branch |-> branch_name,
              target |-> target_branch]
  /\ out' = [op |-> "get_branch_divergence",
             result |-> get_branch_divergence(repo, branch_name,
                                              target_branch)]
  /\ pc' = "done"
  /\ UNCHANGED <<repo, mgr, tmp>>

\* BranchManager(repo)._get_branch_divergence(branch, target_branch)
BranchDivergence(branch, target_branch) ==
  /\ pc = "setup"
  /\ call' = [op |-> "_get_branch_divergence", branch |-> branch,
              target |-> target_branch]
  /\ out' = [op |-> "_get_branch_divergence",
             result |-> _get_branch_divergence(repo, branch, target_branch)]
  /\ pc' = "done"
  /\ UNCHANGED <<repo, mgr, tmp>>

SpecDivergence ==
  InitDivergence
  /\ [][\/ \E a \in Branch, b \in Branch : GetBranchDivergence(a, b)
        \/ \E a \in Branch, b \in Branch : BranchDivergence(a, b)]_vars

\* C20: get_branch_divergence and BranchManager._get_branch_divergence return
\* (0, 0) exactly when the two refs point to the same commit; two refs that
\* are both missing count as pointing to the same commit here.
C20_ZeroDivergenceIffSameCommit ==
  (pc = "done" /\ out.op \in {"get_branch_divergence",
                              "_get_branch_divergence"})
    => ((out.result.ahead = 0 /\ out.result.behind = 0)
          <=> Resolve(repo, call.branch) = Resolve(repo, call.target))

\* C21: when get_branch_divergence(B, A) returns (x, y),
\* get_branch_divergence(A, B) returns (y, x), a missing ref and two
\* histories without a common commit included.
C21_SwappedArgumentsSwapThePair ==
  (pc = "done" /\ out.op = "get_branch_divergence")
    => get_branch_divergence(repo, call.target, call.branch)
         = [ahead |-> out.result.behind, behind |-> out.result.ahead]

\* C21 witness: a pair of branches with different numbers of commits on the
\* two sides of their common ancestor
C21_Witness_UnequalSides ==
  /\ pc = "done"
  /\ out.op = "get_branch_divergence"
  /\ out.result.ahead > out.result.behind
  /\ out.result.behind > 0

\* C22: every entry of conflicting_files that names a file has a severity
\* among low (Faible), medium (Moyenne) and high (Elevee), whatever the
\* configuration: high when the diff of the file holds an import/require or
\* a function/class definition, otherwise low for at most 5 changed lines,
\* medium for at most 20 and high above.
C22_SeverityFromDiff ==
  (pc = "done" /\ out.op = "detect_conflicts")
    => \A i \in 1..Len(out.report.conflicting_files) :
         LET e == out.report.conflicting_files[i]
             src == call.repo.commits[Resolve(call.repo, call.source)].tree
             tgt == call.repo.commits[Resolve(call.repo, call.target)].tree
         IN /\ e.file_path \in File
                 => e.severity \in {"Faible", "Moyenne", "Élevée"}
            /\ (~e.error /\ e.file_path \in File)
                 => e.severity =
                      IF GitDiff(e.file_path, src[e.file_path],
                                 tgt[e.file_path]).keywords # {}
                        THEN "Élevée"
                      ELSE IF src[e.file_path] + tgt[e.file_path] <= 5
                        THEN "Faible"
                      ELSE IF src[e.file_path] + tgt[e.file_path] <= 20
                        THEN "Moyenne"
                      ELSE "Élevée"

\* C23: after sync_with_main has returned "synchronized" for a branch,
\* check_sync_status of that branch reports is_synced with no commit
\* behind, and every commit of the integration branch is reachable from the
\* tip of the branch.
C23_SynchronizedMeansNotBehind ==
  (pc = "done" /\ out.op = "sync_with_main" /\ out.status = "synchronized")
    => /\ check_sync_status(repo, call.cfg.main_branch, call.branch).raised
            = NoExc
       /\ check_sync_status(repo, call.cfg.main_branch, call.branch).is_synced
       /\ check_sync_status(repo, call.cfg.main_branch,
                            call.branch).behind_commits = 0
       /\ repo.commits[repo.branches[call.cfg.main_branch]].anc
            \subseteq repo.commits[repo.branches[call.branch]].anc

\* C23 witness: a branch that was behind the integration branch has been
\* synchronised by a rebase
C23_Witness_RebasedBranchSynced ==
  /\ pc = "done"
  /\ out.op = "sync_with_main"
  /\ out.status = "synchronized"
  /\ out.strategy = "rebase"
  /\ get_branch_divergence(call.repo, call.branch,
                           call.cfg.main_branch).behind > 0
  /\ get_branch_divergence(call.repo, call.branch,
                           call.cfg.main_branch).ahead > 0

\* C24: detect_conflicts(X, X) returns has_conflicts False with no
\* conflicting file for every branch name X, existing or not, without a
\* trial merge, and the answer does not come from a look at the history (a
\* branch that does not exist has no common ancestor to find).
C24_SameBranchNoConflict ==
  (pc = "done" /\ out.op = "detect_conflicts" /\ call.source = call.target)
    => /\ ~out.report.has_conflicts
       /\ out.report.conflicting_files = <<>>
       /\ out.report.error = ""
       /\ out.trial = "none"
       /\ tmp = {}

\* C24 witness: detect_conflicts was asked about a branch that does not
\* exist and itself
C24_Witness_MissingBranchWithItself ==
  /\ pc = "done"
  /\ out.op = "detect_conflicts"
  /\ call.source = call.target
  /\ Resolve(call.repo, call.source) = 0
  /\ ~out.report.has_conflicts

\* C25: when the branch name matches a forced-strategy pattern,
\* get_strategy_advice returns the forced strategy without the rest of the
\* analysis: no divergence query, no file analysis, no conflict detection
\* and no trial merge for that call.
C25_ForcedPatternSkipsAnalysis ==
  (pc = "done" /\ out.op = "get_strategy_advice"
     /\ call.branch # call.target
     /\ _check_forced_strategy(call.cfg, call.branch) # "")
    => /\ out.strategy = _check_forced_strategy(call.cfg, call.branch)
       /\ out.trial = "none"
       /\ \A i \in 1..Len(out.queries) :
             out.queries[i] \notin {"get_branch_divergence",
                                    "get_common_ancestor",
                                    "get_modified_files", "detect_conflicts"}

C27_SuccessKeepsUncommittedChanges ==
  (pc = "done" /\ out.op = "check_sync_status" /\ out.raised = NoExc)
    => /\ repo.wt = call.repo.wt
       /\ \A i \in 1..Len(repo.stash) : repo.stash[i].msg[1] # "recovery"

\* C28: the rollback of a safe_operation (restore_state) changes no branch
\* tip other than that of the recorded branch: when the body raised while
\* another branch than the recorded one was checked out, that branch has
\* after the rollback the tip it had when the body raised.
C28_RollbackKeepsOtherTips ==
  (pc = "done" /\ out.op = "safe_operation" /\ out.body_exc # NoExc
     /\ call.stored
     /\ out.at_raise.branch \notin {call.branch, NoBranch})
    => repo.branches[out.at_raise.branch] = out.at_raise.head

\* C29: the stash entry that restore_state(name) applies and drops is the
\* one the save_state(name) call created, also when other entries were
\* pushed on the stash list in between.
C29_RestoreAppliesOwnStash ==
  (out.op = "restore_state" /\ call.name \in DOMAIN call.mgr.saved_states
     /\ out.steps # <<>> /\ out.steps[Len(out.steps)] = "stash"
     /\ call.mgr.saved_states[call.name].stash_id < Len(call.repo.stash))
    => call.repo.stash[call.mgr.saved_states[call.name].stash_id + 1].msg
         = <<"recovery", call.name>>

\* C30: whenever the body of safe_operation(name) runs, a recovery state
\* for name is stored in the manager.
C30_BodyRunsWithStoredState ==
  (pc = "body" /\ call.op = "safe_operation")
    => call.name \in DOMAIN mgr.saved_states

====
